---- MODULE Spec2Model ----
(***************************************************************************)
(* Model of packages/cosmos/src/client.rs: the endpoint pool               *)
(* (CosmosBuilders), the sequence-mismatch detector                        *)
(* (get_expected_sequence), the gas pricing policy (gas_to_coins) and the  *)
(* transaction submission engine (TxBuilder::simulate,                     *)
(* inner_sign_and_broadcast, sign_and_broadcast_with,                      *)
(* Cosmos::wait_for_transaction_body).                                     *)
(*                                                                         *)
(* Spec      one submission running against the pool and a node whose      *)
(*           replies are chosen nondeterministically.                      *)
(* PoolSpec  concurrent lease creations on the pool (round-robin cursor).  *)
(* CallSpec  single calls of the helpers: get_expected_sequence,           *)
(*           gas_to_coins, the gas padding of sign_and_broadcast, the      *)
(*           paginated queries all_balances and query_granter_grants, the  *)
(*           accessors of the primary configuration and                    *)
(*           get_earliest_block_info.                                      *)
(* LeaseSpec concurrent callers that take leases from the pool, run calls  *)
(*           on them and give them back.                                   *)
(* WalletSpec concurrent submissions from one wallet against a node that   *)
(*           checks the account sequence.                                  *)
(* SubmitSpec concurrent submissions on a pool of bounded size.            *)
(***************************************************************************)
EXTENDS Integers, Sequences, FiniteSets, TLC

(***************************************************************************)
(* Bounds of the exploration.                                              *)
(***************************************************************************)
\* largest configured gas_price_retry_attempts
MaxAttempts == 2
\* the node reports account sequences 0..MaxSeq
MaxSeq == 1
\* configured transaction_attempts of every endpoint
MaxTxAttempts == 2
\* number of lease creations explored in PoolSpec
MaxCreations == 4
\* number of concurrent creators in PoolSpec
NumCreators == 2
\* largest number of configured endpoints in PoolSpec
MaxPoolEndpoints == 3
\* max_size of the pool in SubmitSpec
MaxPoolSize == 2
\* largest number of lines of an error text in CallSpec
MaxLines == 2
\* largest number of pages of a paginated source in CallSpec
MaxPages == 3
\* page requests explored per paginated query in CallSpec
MaxRequests == 5

None == -1

(***************************************************************************)
(* Node error text.  A text is a sequence of tokens; the tokens are the    *)
(* needle of get_expected_sequence_single, the decimal digits, ",", "+",   *)
(* the line break and arbitrary other words.                               *)
(***************************************************************************)
Needle == "account sequence mismatch, expected "
NewLine == "\n"
Digits == <<"0", "1", "2", "3", "4", "5", "6", "7", "8", "9">>

IsDigit(t) == \E i \in 1..Len(Digits) : Digits[i] = t
DigitVal(t) == (CHOOSE i \in 1..Len(Digits) : Digits[i] = t) - 1
DigitTok(n) == Digits[n + 1]

\* str::parse::<u64> on the tokens of a slice: an optional leading "+",
\* then at least one digit and nothing else.  (Texts here are far too short
\* to exceed the u64 range.)
RECURSIVE DigitsValue(_, _)
DigitsValue(s, acc) ==
    IF s = <<>> THEN acc
    ELSE DigitsValue(Tail(s), acc * 10 + DigitVal(Head(s)))

ParseU64(s) ==
    LET body == IF s # <<>> /\ Head(s) = "+" THEN Tail(s) ELSE s
    IN  IF body # <<>> /\ \A i \in 1..Len(body) : IsDigit(body[i])
        THEN DigitsValue(body, 0)
        ELSE None

\* str::find: index of the first occurrence of token t, 0 if there is none
FindTok(s, t) ==
    IF \E i \in 1..Len(s) : s[i] = t
    THEN CHOOSE i \in 1..Len(s) : s[i] = t /\ \A j \in 1..(i - 1) : s[j] # t
    ELSE 0

\* str::lines
RECURSIVE Lines(_)
Lines(m) ==
    IF m = <<>> THEN <<>>
    ELSE LET nl == FindTok(m, NewLine)
         IN  IF nl = 0 THEN <<m>>
             ELSE <<SubSeq(m, 1, nl - 1)>> \o Lines(SubSeq(m, nl + 1, Len(m)))

\* variant of get_expected_sequence_single that looks for the needle
\* anywhere in the line
get_expected_sequence_single_find(message) ==
    LET at == FindTok(message, Needle)
    IN  IF at = 0 THEN None
        ELSE LET s == SubSeq(message, at + 1, Len(message))
                 comma == FindTok(s, ",")
             IN  IF comma = 0 THEN None ELSE ParseU64(SubSeq(s, 1, comma - 1))

get_expected_sequence_single(message) ==
    IF message # <<>> /\ Head(message) = Needle
    THEN LET s == Tail(message)
             comma == FindTok(s, ",")
         IN  IF comma = 0 THEN None ELSE ParseU64(SubSeq(s, 1, comma - 1))
    ELSE None

RECURSIVE FirstSome(_)
FirstSome(ls) ==
    IF ls = <<>> THEN None
    ELSE LET x == get_expected_sequence_single(Head(ls))
         IN  IF x # None THEN x ELSE FirstSome(Tail(ls))

\* variant of get_expected_sequence that reads the first line only
get_expected_sequence_first_line(message) ==
    LET ls == Lines(message)
    IN  IF ls = <<>> THEN None ELSE get_expected_sequence_single(Head(ls))

get_expected_sequence(message) == FirstSome(Lines(message))

\* the error texts the node of this model produces
MsgMismatch(n) == <<Needle, DigitTok(n), ",", " got 0">>
MsgPrelude(n) == <<"blah blah blah", NewLine, NewLine, Needle, DigitTok(n), ",", " got 0">>
MsgOther == <<"Totally different error message">>
MsgNotFound == <<"tx not found">>

(***************************************************************************)
(* State.                                                                  *)
(***************************************************************************)
VARIABLES
    \* CosmosBuilders and the deadpool pool built on it
    builders,                 \* Vec<Arc<CosmosBuilder>>, in configured order
    next_index,               \* CosmosBuilders::next_index (0-based)
    idle,                     \* idle leases of the pool, oldest first
    \* configuration of the first builder and of the draft
    gas_price_retry_attempts, \* CosmosConfig::gas_price_retry_attempts
    skip_code_check,          \* TxBuilder::skip_code_check
    entry,                    \* which public operation was called
    \* the submission
    pc,                       \* position of the submission
    sim_call,                 \* 1 or 2: which simulate_inner call of simulate
    sim_sequence,             \* sequence argument of the next simulate_inner
    gas_to_request,           \* gas limit handed to inner_sign_and_broadcast
    base_account,             \* base_account of inner_sign_and_broadcast
    sequence,                 \* sequence argument of sign_and_broadcast_with
    pass,                     \* 1 or 2: which call of sign_and_broadcast_with
    attempt_number,           \* price tier of the current retry_with_price
    tx,                       \* the Tx built and signed by retry_with_price
    held,                     \* leases checked out by the submission
    wait_attempt,             \* loop counter of wait_for_transaction_body
    result,                   \* what the operation returned
    \* record of the requests made
    sim_log,                  \* simulate requests and their replies
    sign_log,                 \* signing documents signed
    bc_log,                   \* broadcast requests and their replies
    polls,                    \* number of get_tx requests made
    last_poll,                \* the last get_tx request and its reply
    slept,                    \* seconds spent in tokio::time::sleep
    rpc_log,                  \* the kinds of request made and their transport
    \* PoolSpec: concurrent calls of Manager::create
    cpc,                      \* position of each creator
    lock_holders,             \* creators inside next_index.lock()
    cres,                     \* local `res` of each creator
    lock_order,               \* creators in the order they took the lock
    created,                  \* selected endpoint of each finished selection
    \* CallSpec: one call of a helper
    fn_call,                  \* the function called and its arguments
    fn_ret,                   \* what the call returned
    pagination,               \* local `pagination` of a paginated query
    acc,                      \* items collected so far (`coins` / `res`)
    page_requests,            \* the page requests issued, in order
    block_requests,           \* the heights of the block requests issued
    \* LeaseSpec: concurrent callers using leases of the pool
    connections,              \* endpoint of each connection established
    dial_attempts,            \* number of dials begun and ended so far
    failed_leases,            \* leases on which an RPC has failed
    lease_of,                 \* the lease each caller has checked out
    \* WalletSpec: concurrent submissions from one wallet
    account_sequence,         \* sequence of the wallet's account at the node
    wpc,                      \* position of each submission
    wsequence,                \* sequence argument of sign_and_broadcast_with
    wpass,                    \* 1 or 2: which call of sign_and_broadcast_with
    wlog,                     \* the transactions broadcast, in order
    \* SubmitSpec: concurrent submissions on a pool of bounded size
    spc,                      \* position of each submission
    sheld,                    \* the leases each submission owns
    pool_size                 \* number of leases of the pool in existence

pool_vars == <<builders, next_index, idle>>
config_vars == <<gas_price_retry_attempts, skip_code_check, entry>>
task_vars == <<pc, sim_call, sim_sequence, gas_to_request, base_account,
               sequence, pass, attempt_number, tx, held, wait_attempt, result>>
log_vars == <<sim_log, sign_log, bc_log, polls, last_poll, slept, rpc_log>>
creator_vars == <<cpc, lock_holders, cres, lock_order, created>>
call_vars == <<fn_call, fn_ret, pagination, acc, page_requests, block_requests>>
lease_vars == <<connections, dial_attempts, failed_leases, lease_of>>
wallet_vars == <<account_sequence, wpc, wsequence, wpass, wlog>>
submit_vars == <<spc, sheld, pool_size>>
vars == <<pool_vars, config_vars, task_vars, log_vars, creator_vars, call_vars,
          lease_vars, wallet_vars, submit_vars>>

(***************************************************************************)
(* Configuration.                                                          *)
(***************************************************************************)
\* CosmosConfig of one endpoint: whether rpc_url is set (alternate JSON
\* transport) and its transaction_attempts
BuilderConfigs == [rpc_url : BOOLEAN, transaction_attempts : {MaxTxAttempts}]

\* the endpoint lists of Spec: two endpoints, each with either transport
BuilderLists == [1..2 -> BuilderConfigs]

\* builders.get(i), i counted from 0
Builder(i) == builders[i + 1]

\* the f64 prices and the multiplier as exact fractions
gas_price_low == [num |-> 2, den |-> 100]
gas_price_high == [num |-> 3, den |-> 100]
gas_estimate_multiplier == [num |-> 13, den |-> 10]
chain_id == "osmo-test-5"
gas_coin == "uosmo"

\* variant of MulTrunc that rounds to the nearest integer
MulRound(x, m) == (2 * x * m.num + m.den) \div (2 * m.den)

\* `(x as f64 * m) as u64` for a fraction m: the product truncated
MulTrunc(x, m) == (x * m.num) \div m.den

\* a failed assert!
Panicked == -3
PanickedPrice == [num |-> Panicked, den |-> 1]

\* low + (high - low) / attempts * attempt, over the common denominator
\* low.den * high.den * attempts
Interpolated(low, high, attempts, attempt) ==
    [num |-> low.num * high.den * attempts
               + (high.num * low.den - low.num * high.den) * attempt,
     den |-> low.den * high.den * attempts]

\* variant of gas_price that does not interpolate between low and high
gas_price_flat(attempt) ==
    IF attempt >= gas_price_retry_attempts THEN gas_price_high ELSE gas_price_low

\* variant of gas_price whose test for the high tier is strict
gas_price_strict(attempt) ==
    LET attempts == gas_price_retry_attempts
    IN  IF attempt > attempts
        THEN gas_price_high
        ELSE IF ~(attempts > 0) THEN PanickedPrice
        ELSE Interpolated(gas_price_low, gas_price_high, attempts, attempt)

\* Cosmos::gas_to_coins: `let gas_price = ..`, attempt_number counted from 0
gas_price(attempt) ==
    LET low == gas_price_low
        high == gas_price_high
        attempts == gas_price_retry_attempts
    IN  IF attempt >= attempts
        THEN high
        ELSE IF ~(attempts > 0) THEN PanickedPrice
        ELSE Interpolated(low, high, attempts, attempt)

\* Cosmos::gas_to_coins
gas_to_coins(gas, attempt) ==
    LET price == gas_price(attempt)
    IN  IF price = PanickedPrice THEN Panicked ELSE MulTrunc(gas, price)

(***************************************************************************)
(* The pool.                                                               *)
(***************************************************************************)
\* variant of WrapCursor that wraps one position too late
WrapCursorLate(i, n) == IF i > n THEN 0 ELSE i

\* CosmosBuilders::get_next_builder: `if *guard >= self.builders.len()`
WrapCursor(i, n) == IF i >= n THEN 0 ELSE i

\* CosmosBuilders::get_next_builder: the cursor after the selection
AdvanceCursor(i, n) == WrapCursor(i + 1, n)

\* Cosmos::inner (Pool::get): an idle lease if there is one, otherwise
\* Manager::create, get_next_builder followed by a dial that may fail
Acquire ==
    IF idle # <<>>
    THEN {[ok |-> TRUE, lease |-> Head(idle), idle |-> Tail(idle),
           next_index |-> next_index]}
    ELSE {[ok |-> d, lease |-> next_index, idle |-> idle,
           next_index |-> AdvanceCursor(next_index, Len(builders))]
            : d \in BOOLEAN}

(***************************************************************************)
(* The node: the replies it can give to each RPC.                          *)
(***************************************************************************)
AccountReplies ==
    {[kind |-> k, account_number |-> 0, sequence |-> 0] : k \in {"err", "none"}}
    \cup {[kind |-> "ok", account_number |-> 7, sequence |-> s] : s \in 0..MaxSeq}

SimulateReplies ==
    {[kind |-> "ok", gas_used |-> 1234, message |-> <<>>],
     [kind |-> "missing", gas_used |-> 0, message |-> <<>>],
     [kind |-> "err", gas_used |-> 0, message |-> MsgOther],
     [kind |-> "err", gas_used |-> 0, message |-> MsgPrelude(MaxSeq)],
     [kind |-> "err", gas_used |-> 0, message |-> MsgMismatch(MaxSeq + 1)]}

\* code 13: insufficient fee; 32: wrong sequence; 5: insufficient funds
BroadcastReplies ==
    {[kind |-> "err", code |-> 0, raw_log |-> <<>>],
     [kind |-> "missing", code |-> 0, raw_log |-> <<>>],
     [kind |-> "ok", code |-> 0, raw_log |-> <<>>],
     [kind |-> "ok", code |-> 13, raw_log |-> MsgMismatch(MaxSeq + 1)],
     [kind |-> "ok", code |-> 5, raw_log |-> MsgOther],
     [kind |-> "ok", code |-> 32, raw_log |-> MsgPrelude(MaxSeq)],
     [kind |-> "ok", code |-> 32, raw_log |-> MsgMismatch(MaxSeq + 1)]}

GetTxReplies ==
    {[kind |-> "ok", status |-> "Ok", code |-> 0, text |-> <<>>],
     [kind |-> "ok", status |-> "Ok", code |-> 13, text |-> MsgOther],
     [kind |-> "ok", status |-> "Ok", code |-> 32, text |-> MsgMismatch(MaxSeq + 1)],
     [kind |-> "missing", status |-> "Ok", code |-> 0, text |-> <<>>],
     [kind |-> "err", status |-> "NotFound", code |-> 0, text |-> MsgOther],
     [kind |-> "err", status |-> "Unknown", code |-> 0, text |-> MsgNotFound],
     [kind |-> "err", status |-> "Unknown", code |-> 0, text |-> MsgOther]}

(***************************************************************************)
(* Results of the operation and of its parts.                              *)
(***************************************************************************)
Pending == [status |-> "pending", kind |-> "", code |-> 0, raw_log |-> <<>>]
Ok(code, raw_log) == [status |-> "ok", kind |-> "TxResponse", code |-> code, raw_log |-> raw_log]
Err(kind, code, raw_log) == [status |-> "err", kind |-> kind, code |-> code, raw_log |-> raw_log]

\* ExpectedSequenceError and the Ok side of Result<_, ExpectedSequenceError>
RealError(e) == [variant |-> "RealError", number |-> None, e |-> e]
NewNumber(x, e) == [variant |-> "NewNumber", number |-> x, e |-> e]
InsufficientGas(e) == [variant |-> "InsufficientGas", number |-> None, e |-> e]
Good(v) == [variant |-> "Ok", number |-> None, e |-> v]

\* variant of simulate_inner that takes a reply without gas_info for an
\* estimate of 0
simulate_inner_lenient(json, r) ==
    IF r.kind = "err"
    THEN RealError(Err("simulate", 0, r.message))
    ELSE IF r.kind = "missing" THEN Good(0)
    ELSE Good(r.gas_used)

\* simulate_inner after the lease was obtained: the classification of the
\* simulate reply.  json: the lease has rpc_info (make_jsonrpc_request(..)?)
simulate_inner(json, r) ==
    IF r.kind = "err"
    THEN IF json
         THEN RealError(Err("simulate", 0, r.message))
         ELSE LET is_sequence == get_expected_sequence(r.message)
                  e == Err("Unable to simulate transaction", 0, r.message)
              IN  IF is_sequence = None THEN RealError(e)
                  ELSE NewNumber(is_sequence, e)
    ELSE IF r.kind = "missing"
         THEN RealError(Err("Missing gas_info in SimulateResponse", 0, <<>>))
         ELSE Good(r.gas_used)

\* variant of simulate_again without the one-retry limit
simulate_again_unlimited(call, res) == res.variant = "NewNumber"

\* TxBuilder::simulate: is simulate_inner called again after outcome res
\* of call number `call`
simulate_again(call, res) == call = 1 /\ res.variant = "NewNumber"

\* variant of broadcast_result that takes a reply without tx_response for
\* a fee that was too low
broadcast_result_checking(r) ==
    IF r.kind = "err"
    THEN RealError(Err("Unable to broadcast transaction", 0, <<>>))
    ELSE IF r.kind = "missing"
    THEN RealError(Err("Missing inner tx_response", 0, <<>>))
    ELSE IF r.code # 0
    THEN LET e == Err("Initial transaction broadcast failed", r.code, r.raw_log)
         IN  IF r.code = 13 THEN InsufficientGas(e)
             ELSE LET is_sequence == get_expected_sequence(r.raw_log)
                  IN  IF is_sequence = None THEN RealError(e)
                      ELSE NewNumber(is_sequence, e)
    ELSE Good(r)

broadcast_result_forgiving(r) ==
    IF r.kind = "err"
    THEN RealError(Err("Unable to broadcast transaction", 0, <<>>))
    ELSE IF r.kind = "missing"
    THEN InsufficientGas(Err("Missing inner tx_response", 0, <<>>))
    ELSE IF ~skip_code_check /\ r.code # 0
    THEN LET e == Err("Initial transaction broadcast failed", r.code, r.raw_log)
         IN  IF r.code = 13 THEN InsufficientGas(e)
             ELSE LET is_sequence == get_expected_sequence(r.raw_log)
                  IN  IF is_sequence = None THEN RealError(e)
                      ELSE NewNumber(is_sequence, e)
    ELSE Good(r)

\* variant of broadcast_result that takes every non-zero code without an
\* expected sequence for insufficient gas
broadcast_result_lenient(r) ==
    IF r.kind = "err"
    THEN RealError(Err("Unable to broadcast transaction", 0, <<>>))
    ELSE IF r.kind = "missing"
    THEN RealError(Err("Missing inner tx_response", 0, <<>>))
    ELSE IF ~skip_code_check /\ r.code # 0
    THEN LET e == Err("Initial transaction broadcast failed", r.code, r.raw_log)
             is_sequence == get_expected_sequence(r.raw_log)
         IN  IF is_sequence = None THEN InsufficientGas(e)
             ELSE NewNumber(is_sequence, e)
    ELSE Good(r)

\* retry_with_price after the lease was obtained: the classification of the
\* broadcast reply
broadcast_result(r) ==
    IF r.kind = "err"
    THEN RealError(Err("Unable to broadcast transaction", 0, <<>>))
    ELSE IF r.kind = "missing"
    THEN RealError(Err("Missing inner tx_response", 0, <<>>))
    ELSE IF ~skip_code_check /\ r.code # 0
    THEN LET e == Err("Initial transaction broadcast failed", r.code, r.raw_log)
         IN  IF r.code = 13 THEN InsufficientGas(e)
             ELSE LET is_sequence == get_expected_sequence(r.raw_log)
                  IN  IF is_sequence = None THEN RealError(e)
                      ELSE NewNumber(is_sequence, e)
    ELSE Good(r)

\* variant of final_result that takes no final code for success
final_result_rejecting(r) == RealError(Err("Transaction failed", r.code, r.text))

\* variant of final_result that classifies the final code the way the
\* accept code is classified
final_result_retrying(r) ==
    IF ~skip_code_check /\ r.code # 0
    THEN LET e == Err("Transaction failed", r.code, r.text)
             is_sequence == get_expected_sequence(r.text)
         IN  IF r.code = 13 THEN InsufficientGas(e)
             ELSE IF is_sequence = None THEN RealError(e)
             ELSE NewNumber(is_sequence, e)
    ELSE Good(r)

\* retry_with_price after wait_for_transaction returned the transaction
final_result(r) ==
    IF ~skip_code_check /\ r.code # 0
    THEN RealError(Err("Transaction failed", r.code, r.text))
    ELSE Good(r)

\* variant of has_next_attempt with one iteration too many
has_next_attempt_inclusive(attempt) == attempt <= gas_price_retry_attempts

\* the loop of sign_and_broadcast_with: after InsufficientGas in attempt
\* number `attempt`, is there another call of retry_with_price
has_next_attempt(attempt) == attempt < gas_price_retry_attempts

\* variant of broadcast_again without the one-retry limit
broadcast_again_unlimited(p, res) == res.variant = "NewNumber"

\* inner_sign_and_broadcast: is sign_and_broadcast_with called again after
\* error res of call number p
broadcast_again(p, res) == p = 1 /\ res.variant = "NewNumber"

\* wait_for_transaction_body: does the error reply mean 'not found'
NotFoundWords == {"tx not found"}

\* variant of is_not_found that takes every error for 'not found'
is_not_found_any(r) == TRUE

\* e.code() == tonic::Code::NotFound || e.message().contains("not found")
is_not_found(r) ==
    r.status = "NotFound" \/ \E i \in 1..Len(r.text) : r.text[i] \in NotFoundWords

(***************************************************************************)
(* Signing.                                                                *)
(***************************************************************************)
Body == "TxBody"
NoTx == [body |-> "", fee_amount |-> 0, fee_denom |-> "", gas_limit |-> 0,
         sequence |-> 0, signature |-> <<>>]

\* variant of SignDocOf that raises the gas limit with the price tier
SignDocOfRaisedGas(amount, seq, account_number) ==
    [body |-> Body, fee_amount |-> amount, fee_denom |-> gas_coin,
     gas_limit |-> gas_to_request + attempt_number, sequence |-> seq,
     chain_id |-> chain_id, account_number |-> account_number]

\* retry_with_price: the sign_doc of the fee `amount` and the sequence
SignDocOf(amount, seq, account_number) ==
    [body |-> Body, fee_amount |-> amount, fee_denom |-> gas_coin,
     gas_limit |-> gas_to_request, sequence |-> seq,
     chain_id |-> chain_id, account_number |-> account_number]

\* Wallet::sign_bytes is deterministic: the signature is identified with
\* the document it signs
sign_bytes(doc) == <<doc>>

\* variant of SignedTx that keeps the signature of the previous attempt
SignedTxReusingSignature(amount) ==
    [body |-> Body, fee_amount |-> amount, fee_denom |-> gas_coin,
     gas_limit |-> gas_to_request, sequence |-> sequence,
     signature |-> IF tx = NoTx
                   THEN sign_bytes(SignDocOf(amount, sequence, base_account.account_number))
                   ELSE tx.signature]

\* retry_with_price, up to the await of cosmos.inner(): the Tx it builds
SignedTx(amount) ==
    [body |-> Body, fee_amount |-> amount, fee_denom |-> gas_coin,
     gas_limit |-> gas_to_request, sequence |-> sequence,
     signature |-> sign_bytes(SignDocOf(amount, sequence, base_account.account_number))]

(***************************************************************************)
(* The submission: sign_and_broadcast / sign_and_broadcast_with_gas.       *)
(***************************************************************************)
Entries == {"sign_and_broadcast", "sign_and_broadcast_with_gas"}
NoPoll == [lease |-> None, attempt |-> 0, broadcasts |-> 0,
           reply |-> [kind |-> "none", status |-> "", code |-> 0, text |-> <<>>]]
GasRequests == {1000}

CreatorIds == 1..NumCreators

\* a fraction standing for an f64
Fraction(n, d) == [num |-> n, den |-> d]

\* PageRequest / Option<PageRequest>: key 0 is the empty key
NoPage == [present |-> FALSE, key |-> 0, offset |-> 0, limit |-> 0]
PageRequest(key, offset, limit) ==
    [present |-> TRUE, key |-> key, offset |-> offset, limit |-> limit]

\* a helper call and its result; the arguments a function does not take
\* are left at their defaults
NoCall == [fn |-> "none", message |-> <<>>, gas |-> 0, attempt |-> 0,
           multiplier |-> Fraction(1, 1), pages |-> <<>>, reply |-> "none"]

\* an anyhow::Error: whether it wraps a tonic::Status, and its message
NoError == [is_status |-> FALSE, message |-> <<>>]
StatusError(message) == [is_status |-> TRUE, message |-> message]
OtherError(message) == [is_status |-> FALSE, message |-> message]

NoRet == [status |-> "none", value |-> 0, items |-> <<>>, error |-> NoError]
Returned(v) == [status |-> "ok", value |-> v, items |-> <<>>, error |-> NoError]
ReturnedItems(items) ==
    [status |-> "ok", value |-> 0, items |-> items, error |-> NoError]
Failed == [status |-> "err", value |-> 0, items |-> <<>>, error |-> NoError]
FailedWith(e) == [status |-> "err", value |-> 0, items |-> <<>>, error |-> e]

InitNoCall ==
    /\ fn_call = NoCall
    /\ fn_ret = NoRet
    /\ pagination = NoPage
    /\ acc = <<>>
    /\ page_requests = <<>>
    /\ block_requests = <<>>

InitNoLease ==
    /\ connections = <<>>
    /\ dial_attempts = 0
    /\ failed_leases = {}
    /\ lease_of = [c \in CreatorIds |-> None]

InitNoWallet ==
    /\ account_sequence = 0
    /\ wpc = [c \in CreatorIds |-> "start"]
    /\ wsequence = [c \in CreatorIds |-> 0]
    /\ wpass = [c \in CreatorIds |-> 1]
    /\ wlog = <<>>

InitNoSubmit ==
    /\ spc = [c \in CreatorIds |-> "account"]
    /\ sheld = [c \in CreatorIds |-> <<>>]
    /\ pool_size = 0

InitPool ==
    /\ builders \in BuilderLists
    /\ next_index = 0
    /\ idle = <<>>

InitCreators ==
    /\ cpc = [c \in CreatorIds |-> "idle"]
    /\ lock_holders = {}
    /\ cres = [c \in CreatorIds |-> None]
    /\ lock_order = <<>>
    /\ created = <<>>

Init ==
    /\ InitPool
    /\ InitCreators
    /\ gas_price_retry_attempts \in 0..MaxAttempts
    /\ skip_code_check \in BOOLEAN
    /\ entry \in Entries
    /\ pc = "start"
    /\ sim_call = 1
    /\ sim_sequence = 0
    /\ gas_to_request = 0
    /\ base_account = [kind |-> "none", account_number |-> 0, sequence |-> 0]
    /\ sequence = 0
    /\ pass = 1
    /\ attempt_number = 0
    /\ tx = NoTx
    /\ held = <<>>
    /\ wait_attempt = 0
    /\ result = Pending
    /\ sim_log = <<>>
    /\ sign_log = <<>>
    /\ bc_log = <<>>
    /\ polls = 0
    /\ last_poll = NoPoll
    /\ slept = 0
    /\ rpc_log = {}
    /\ InitNoCall
    /\ InitNoLease
    /\ InitNoWallet
    /\ InitNoSubmit

\* variant of get_tx_transport that follows rpc_info as the other calls do
get_tx_transport_by_rpc_info(json) == IF json THEN "json" ELSE "grpc"

\* `match &inner.rpc_info`: Some(..) => make_jsonrpc_request, None => the
\* gRPC stub
transport(json) == IF json THEN "json" ELSE "grpc"

\* wait_for_transaction_body: inner.tx_service_client, whatever rpc_info is
get_tx_transport(json) == "grpc"

\* rpc_log after a request of kind rpc through the lease
Made(rpc, lease, via) ==
    rpc_log \cup {[rpc |-> rpc, json |-> Builder(lease).rpc_url, transport |-> via]}

\* the operation returns r
Return(r) == pc' = "done" /\ result' = r

\* Cosmos::get_base_account: the pool after the call and the reply;
\* the lease goes back to the pool when the function returns
get_base_account ==
    {[next_index |-> a.next_index,
      ok |-> a.ok,
      lease |-> a.lease,
      idle |-> IF a.ok THEN Append(a.idle, a.lease) ELSE a.idle,
      reply |-> IF a.ok THEN r ELSE [r EXCEPT !.kind = "connect"]]
        : a \in Acquire, r \in AccountReplies}

AccountError(r) ==
    IF r.kind = "connect" THEN Err("Unable to get internal CosmosInner value from pool", 0, <<>>)
    ELSE IF r.kind = "none" THEN Err("no account found", 0, <<>>)
    ELSE Err("account", 0, <<>>)

\* the public entry points
Start ==
    /\ pc = "start"
    /\ IF entry = "sign_and_broadcast"
       THEN pc' = "simulate_account" /\ UNCHANGED gas_to_request
       ELSE /\ pc' = "broadcast_account"
            /\ gas_to_request' \in GasRequests
    /\ UNCHANGED <<pool_vars, config_vars, log_vars, creator_vars, call_vars, lease_vars, wallet_vars, submit_vars, sim_call,
                   sim_sequence, base_account, sequence, pass, attempt_number,
                   tx, held, wait_attempt, result>>

\* TxBuilder::simulate: get_base_account
SimulateAccount ==
    /\ pc = "simulate_account"
    /\ \E g \in get_base_account :
         /\ next_index' = g.next_index
         /\ idle' = g.idle
         /\ rpc_log' = IF g.ok
                        THEN Made("account", g.lease, transport(Builder(g.lease).rpc_url))
                        ELSE rpc_log
         /\ IF g.reply.kind = "ok"
            THEN /\ pc' = "simulate_inner"
                 /\ sim_sequence' = g.reply.sequence
                 /\ UNCHANGED result
            ELSE /\ Return(AccountError(g.reply))
                 /\ UNCHANGED sim_sequence
    /\ UNCHANGED <<builders, config_vars, creator_vars, call_vars, lease_vars, wallet_vars, submit_vars, sim_call,
                   sim_log, sign_log, bc_log, polls,
                   last_poll, slept, gas_to_request, base_account, sequence, pass,
                   attempt_number, tx, held, wait_attempt>>

\* TxBuilder::simulate: one call of simulate_inner and what simulate does
\* with its outcome; sign_and_broadcast then pads the estimate
SimulateInner ==
    /\ pc = "simulate_inner"
    /\ \E a \in Acquire :
         /\ next_index' = a.next_index
         /\ IF ~a.ok
            THEN /\ idle' = a.idle
                 /\ Return(Err("Unable to get internal CosmosInner value from pool", 0, <<>>))
                 /\ UNCHANGED <<sim_log, rpc_log, sim_call, sim_sequence, gas_to_request>>
            ELSE \E r \in SimulateReplies :
                   LET res == simulate_inner(Builder(a.lease).rpc_url, r) IN
                   /\ idle' = Append(a.idle, a.lease)
                   /\ rpc_log' = Made("simulate", a.lease,
                                      transport(Builder(a.lease).rpc_url))
                   /\ sim_log' = Append(sim_log, [sequence |-> sim_sequence,
                                                  lease |-> a.lease, reply |-> r])
                   /\ IF res.variant = "Ok"
                      THEN /\ gas_to_request' = MulTrunc(res.e, gas_estimate_multiplier)
                           /\ pc' = "broadcast_account"
                           /\ UNCHANGED <<sim_call, sim_sequence, result>>
                      ELSE IF simulate_again(sim_call, res)
                      THEN /\ sim_call' = 2
                           /\ sim_sequence' = res.number
                           /\ UNCHANGED <<pc, gas_to_request, result>>
                      ELSE /\ Return(res.e)
                           /\ UNCHANGED <<sim_call, sim_sequence, gas_to_request>>
    /\ UNCHANGED <<builders, config_vars, creator_vars, call_vars, lease_vars, wallet_vars, submit_vars, sign_log, bc_log,
                   polls, last_poll, slept, base_account, sequence, pass,
                   attempt_number, tx, held, wait_attempt>>

\* variant of first_sequence that hands on the sequence simulate ended with
first_sequence_from_simulate(account) ==
    IF sim_log # <<>> THEN sim_sequence ELSE account.sequence

\* the sequence the first call of sign_and_broadcast_with is given
first_sequence(account) == account.sequence

\* inner_sign_and_broadcast: get_base_account, then the first pass
BroadcastAccount ==
    /\ pc = "broadcast_account"
    /\ \E g \in get_base_account :
         /\ next_index' = g.next_index
         /\ idle' = g.idle
         /\ rpc_log' = IF g.ok
                        THEN Made("account", g.lease, transport(Builder(g.lease).rpc_url))
                        ELSE rpc_log
         /\ IF g.reply.kind = "ok"
            THEN /\ base_account' = g.reply
                 /\ sequence' = first_sequence(g.reply)
                 /\ pass' = 1
                 /\ attempt_number' = 0
                 /\ pc' = "sign"
                 /\ UNCHANGED result
            ELSE /\ Return(AccountError(g.reply))
                 /\ UNCHANGED <<base_account, sequence, pass, attempt_number>>
    /\ UNCHANGED <<builders, config_vars, creator_vars, call_vars, lease_vars, wallet_vars, submit_vars, sim_call,
                   sim_log, sign_log, bc_log, polls,
                   last_poll, slept, sim_sequence, gas_to_request, tx, held, wait_attempt>>

\* retry_with_price: build auth_info, sign_doc, the signature and the Tx
Sign ==
    /\ pc = "sign"
    /\ LET amount == gas_to_coins(gas_to_request, attempt_number) IN
       IF amount = Panicked
       THEN /\ pc' = "panicked"
            /\ UNCHANGED <<tx, sign_log>>
       ELSE /\ tx' = SignedTx(amount)
            /\ sign_log' = Append(sign_log,
                   [pass |-> pass, attempt_number |-> attempt_number,
                    doc |-> SignDocOf(amount, sequence, base_account.account_number)])
            /\ pc' = "broadcast"
    /\ UNCHANGED <<pool_vars, config_vars, creator_vars, call_vars, lease_vars, wallet_vars, submit_vars, sim_log, bc_log,
                   polls, last_poll, slept, rpc_log, sim_call, sim_sequence,
                   gas_to_request, base_account, sequence, pass,
                   attempt_number, held, wait_attempt, result>>

ConnectError == Err("Unable to get internal CosmosInner value from pool", 0, <<>>)

\* variant of next_attempt that skips a tier
next_attempt_skipping(attempt) == attempt + 2

\* the loop of sign_and_broadcast_with: `for attempt_number in 0..attempts`,
\* then the call with attempt number `attempts`
next_attempt(attempt) == attempt + 1

\* variant of exhausted that looks for an expected sequence in the raw log
exhausted_classified(res) ==
    LET is_sequence == get_expected_sequence(res.e.raw_log)
    IN  IF is_sequence = None THEN RealError(res.e)
        ELSE NewNumber(is_sequence, res.e)

\* sign_and_broadcast_with after its last call of retry_with_price:
\* Err(AttemptError::InsufficientGas(e)) => Err(e.into())
exhausted(res) == RealError(res.e)

\* variant of first_attempt that goes on at the tier reached before
first_attempt_resumed(attempt) == attempt

\* sign_and_broadcast_with: `for attempt_number in 0..attempts` begins at 0
\* in every call, whatever tier the call before had reached
first_attempt(attempt) == 0

\* retry_with_price returned Err(res): what the loop of
\* sign_and_broadcast_with and then inner_sign_and_broadcast do with it
AttemptFailed(res) ==
    IF res.variant = "InsufficientGas" /\ has_next_attempt(attempt_number)
    THEN /\ attempt_number' = next_attempt(attempt_number)
         /\ pc' = "sign"
         /\ UNCHANGED <<sequence, pass, result>>
    ELSE LET err == IF res.variant = "InsufficientGas" THEN exhausted(res) ELSE res
         IN  IF broadcast_again(pass, err)
             THEN /\ pass' = pass + 1
                  /\ sequence' = err.number
                  /\ attempt_number' = first_attempt(attempt_number)
                  /\ pc' = "sign"
                  /\ UNCHANGED result
             ELSE /\ Return(err.e)
                  /\ UNCHANGED <<sequence, pass, attempt_number>>

\* retry_with_price: obtain a lease, broadcast the Tx, check the code of the
\* reply
Broadcast ==
    /\ pc = "broadcast"
    /\ \E a \in Acquire :
         /\ next_index' = a.next_index
         /\ IF ~a.ok
            THEN /\ idle' = a.idle
                 /\ AttemptFailed(RealError(ConnectError))
                 /\ UNCHANGED <<bc_log, rpc_log, held>>
            ELSE \E r \in BroadcastReplies :
                   LET res == broadcast_result(r) IN
                   /\ rpc_log' = Made("broadcast", a.lease,
                                      transport(Builder(a.lease).rpc_url))
                   /\ bc_log' = Append(bc_log,
                          [pass |-> pass, attempt_number |-> attempt_number,
                           tx |-> tx, lease |-> a.lease, reply |-> r])
                   /\ IF res.variant = "Ok"
                      THEN /\ pc' = "wait_inner"
                           /\ held' = <<a.lease>>
                           /\ idle' = a.idle
                           /\ UNCHANGED <<sequence, pass, attempt_number, result>>
                      ELSE /\ idle' = Append(a.idle, a.lease)
                           /\ UNCHANGED held
                           /\ AttemptFailed(res)
    /\ UNCHANGED <<builders, config_vars, creator_vars, call_vars, lease_vars, wallet_vars, submit_vars, sim_log, sign_log,
                   polls, last_poll, slept, sim_call, sim_sequence,
                   gas_to_request, base_account, tx, wait_attempt>>

\* the leases of the submission go back to the pool: the one of
\* wait_for_transaction_body first, then the one of retry_with_price
ReleaseAll(pool_idle, leases) ==
    IF Len(leases) = 2 THEN pool_idle \o <<leases[2], leases[1]>>
    ELSE pool_idle \o leases

\* the hash of the broadcast transaction, as the node reports it
TxHash == "TXHASH"

\* anyhow!("Timed out waiting for {txhash} to be ready")
TimedOut == Err("Timed out", 0, <<"Timed out waiting for ", TxHash, " to be ready">>)

DELAY_SECONDS == 2

\* variant of poll_again with one iteration too many
poll_again_inclusive(attempt, attempts) == attempt <= attempts

\* wait_for_transaction_body: `for attempt in 1..=transaction_attempts`, is
\* there an iteration after iteration `attempt`
poll_again(attempt, attempts) == attempt < attempts

\* wait_for_transaction_body: obtain a lease and enter the loop
WaitInner ==
    /\ pc = "wait_inner"
    /\ \E a \in Acquire :
         /\ next_index' = a.next_index
         /\ IF ~a.ok
            THEN /\ idle' = ReleaseAll(a.idle, held)
                 /\ held' = <<>>
                 /\ AttemptFailed(RealError(ConnectError))
                 /\ UNCHANGED wait_attempt
            ELSE IF Builder(a.lease).transaction_attempts < 1
            THEN /\ idle' = ReleaseAll(a.idle, Append(held, a.lease))
                 /\ held' = <<>>
                 /\ AttemptFailed(RealError(TimedOut))
                 /\ UNCHANGED wait_attempt
            ELSE /\ idle' = a.idle
                 /\ held' = Append(held, a.lease)
                 /\ wait_attempt' = 1
                 /\ pc' = "wait_poll"
                 /\ UNCHANGED <<sequence, pass, attempt_number, result>>
    /\ UNCHANGED <<builders, config_vars, log_vars, creator_vars, call_vars, lease_vars, wallet_vars, submit_vars, sim_call,
                   sim_sequence, gas_to_request, base_account, tx>>

\* wait_for_transaction_body left its loop with reply r: what
\* retry_with_price makes of it
wait_result(r) ==
    IF r.kind = "ok" THEN final_result(r)
    ELSE IF r.kind = "missing"
    THEN RealError(Err("Missing tx for transaction", 0, <<>>))
    ELSE IF is_not_found(r) THEN RealError(TimedOut)
    ELSE RealError(Err("get_tx", 0, r.text))

\* wait_for_transaction_body: one get_tx query of the loop; when the loop
\* ends, retry_with_price checks the final code
WaitPoll ==
    /\ pc = "wait_poll"
    /\ \E r \in GetTxReplies :
         LET not_ready == r.kind = "err" /\ is_not_found(r) IN
         /\ polls' = polls + 1
         /\ rpc_log' = Made("get_tx", held[2],
                            get_tx_transport(Builder(held[2]).rpc_url))
         /\ last_poll' = [lease |-> held[2], attempt |-> wait_attempt,
                          broadcasts |-> Len(bc_log), reply |-> r]
         /\ slept' = IF not_ready THEN slept + DELAY_SECONDS ELSE slept
         /\ IF not_ready
               /\ poll_again(wait_attempt, Builder(held[2]).transaction_attempts)
            THEN /\ wait_attempt' = wait_attempt + 1
                 /\ UNCHANGED <<pc, result, held, idle, sequence, pass,
                                attempt_number>>
            ELSE /\ idle' = ReleaseAll(idle, held)
                 /\ held' = <<>>
                 /\ UNCHANGED wait_attempt
                 /\ LET res == wait_result(r) IN
                    IF res.variant = "Ok"
                    THEN /\ Return(Ok(r.code, r.text))
                         /\ UNCHANGED <<sequence, pass, attempt_number>>
                    ELSE AttemptFailed(res)
    /\ UNCHANGED <<builders, next_index, config_vars, creator_vars, call_vars, lease_vars, wallet_vars, submit_vars, sim_log,
                   sign_log, bc_log, sim_call, sim_sequence, gas_to_request,
                   base_account, tx>>

Next ==
    \/ Start
    \/ SimulateAccount
    \/ SimulateInner
    \/ BroadcastAccount
    \/ Sign
    \/ Broadcast
    \/ WaitInner
    \/ WaitPoll

Spec == Init /\ [][Next]_vars

(***************************************************************************)
(* PoolSpec: concurrent callers of Cosmos::inner.  Manager::create is      *)
(* followed statement by statement; next_index.lock() is a mutex.          *)
(***************************************************************************)
PoolBuilderLists ==
    UNION {[1..n -> [rpc_url : {FALSE}, transaction_attempts : {MaxTxAttempts}]]
             : n \in 1..MaxPoolEndpoints}

InitPoolSpec ==
    /\ builders \in PoolBuilderLists
    /\ next_index = 0
    /\ idle = <<>>
    /\ InitCreators
    /\ gas_price_retry_attempts = 0
    /\ skip_code_check = FALSE
    /\ entry = "sign_and_broadcast"
    /\ pc = "start"
    /\ sim_call = 1
    /\ sim_sequence = 0
    /\ gas_to_request = 0
    /\ base_account = [kind |-> "none", account_number |-> 0, sequence |-> 0]
    /\ sequence = 0
    /\ pass = 1
    /\ attempt_number = 0
    /\ tx = NoTx
    /\ held = <<>>
    /\ wait_attempt = 0
    /\ result = Pending
    /\ sim_log = <<>>
    /\ sign_log = <<>>
    /\ bc_log = <<>>
    /\ polls = 0
    /\ last_poll = NoPoll
    /\ slept = 0
    /\ rpc_log = {}
    /\ InitNoCall
    /\ InitNoLease
    /\ InitNoWallet
    /\ InitNoSubmit

engine_vars == <<config_vars, task_vars, log_vars, call_vars, lease_vars,
                wallet_vars, submit_vars>>

\* variant of CursorLockFree without mutual exclusion
CursorLockIgnored == TRUE

\* parking_lot::Mutex::lock returns when nobody holds the mutex
CursorLockFree == lock_holders = {}

\* the lock-order position of the creation creator c is working on
SlotOf(c) == CHOOSE k \in 1..Len(lock_order) :
                /\ lock_order[k] = c
                /\ \A j \in (k + 1)..Len(lock_order) : lock_order[j] # c

\* Pool::get: take an idle lease, or decide to create one
PoolGet(c) ==
    /\ cpc[c] = "idle"
    /\ IF idle # <<>>
       THEN /\ cres' = [cres EXCEPT ![c] = Head(idle)]
            /\ idle' = Tail(idle)
            /\ cpc' = [cpc EXCEPT ![c] = "holding"]
       ELSE /\ cpc' = [cpc EXCEPT ![c] = "create"]
            /\ UNCHANGED <<cres, idle>>
    /\ UNCHANGED <<builders, next_index, lock_holders, lock_order, created,
                   engine_vars>>

\* get_next_builder: let mut guard = self.next_index.lock()
LockCursor(c) ==
    /\ cpc[c] = "create"
    /\ Len(lock_order) < MaxCreations
    /\ CursorLockFree
    /\ lock_holders' = lock_holders \cup {c}
    /\ lock_order' = Append(lock_order, c)
    /\ created' = Append(created, None)
    /\ cpc' = [cpc EXCEPT ![c] = "locked"]
    /\ UNCHANGED <<pool_vars, cres, engine_vars>>

\* get_next_builder: res = self.builders.get(*guard).expect(..).clone()
SelectBuilder(c) ==
    /\ cpc[c] = "locked"
    /\ IF next_index < Len(builders)
       THEN /\ cres' = [cres EXCEPT ![c] = next_index]
            /\ created' = [created EXCEPT ![SlotOf(c)] = next_index]
            /\ cpc' = [cpc EXCEPT ![c] = "selected"]
       ELSE /\ cpc' = [cpc EXCEPT ![c] = "panicked"]
            /\ UNCHANGED <<cres, created>>
    /\ UNCHANGED <<pool_vars, lock_holders, lock_order, engine_vars>>

\* get_next_builder: *guard += 1
IncrementCursor(c) ==
    /\ cpc[c] = "selected"
    /\ next_index' = next_index + 1
    /\ cpc' = [cpc EXCEPT ![c] = "incremented"]
    /\ UNCHANGED <<builders, idle, lock_holders, cres, lock_order, created,
                   engine_vars>>

\* get_next_builder: if *guard >= self.builders.len() { *guard = 0 }
WrapCursorStep(c) ==
    /\ cpc[c] = "incremented"
    /\ next_index' = WrapCursor(next_index, Len(builders))
    /\ cpc' = [cpc EXCEPT ![c] = "wrapped"]
    /\ UNCHANGED <<builders, idle, lock_holders, cres, lock_order, created,
                   engine_vars>>

\* variant of drop_guard that keeps the mutex locked after the return
drop_guard_late(holders, c) == holders

\* the MutexGuard `guard` goes out of scope at the end of get_next_builder
drop_guard(holders, c) == holders \ {c}

\* get_next_builder returns res: the guard is dropped
UnlockCursor(c) ==
    /\ cpc[c] = "wrapped"
    /\ lock_holders' = drop_guard(lock_holders, c)
    /\ cpc' = [cpc EXCEPT ![c] = "dial"]
    /\ UNCHANGED <<pool_vars, cres, lock_order, created, engine_vars>>

\* variant of cursor_after_dial that steps back after a failed dial, so
\* that the endpoint is dialed once more
cursor_after_dial_stepping_back(i, connected, n) ==
    IF connected THEN i ELSE (i + n - 1) % n

\* Manager::create returns what build_inner returns: the cursor that
\* get_next_builder left is not touched, whatever the dial gave
cursor_after_dial(i, connected, n) == i

\* build_inner: the dial succeeds (the caller gets the lease) or it times
\* out or fails (the caller gets an error)
Dial(c) ==
    /\ cpc[c] = "dial"
    /\ \E connected \in BOOLEAN :
         /\ next_index' = cursor_after_dial(next_index, connected, Len(builders))
         /\ IF connected
            THEN cpc' = [cpc EXCEPT ![c] = "holding"] /\ UNCHANGED cres
            ELSE /\ cpc' = [cpc EXCEPT ![c] = "idle"]
                 /\ cres' = [cres EXCEPT ![c] = None]
    /\ UNCHANGED <<builders, idle, lock_holders, lock_order, created,
                   engine_vars>>

\* the caller drops the lease: Manager::recycle accepts it
ReleaseLease(c) ==
    /\ cpc[c] = "holding"
    /\ idle' = Append(idle, cres[c])
    /\ cres' = [cres EXCEPT ![c] = None]
    /\ cpc' = [cpc EXCEPT ![c] = "idle"]
    /\ UNCHANGED <<builders, next_index, lock_holders, lock_order, created,
                   engine_vars>>

PoolNext ==
    \E c \in CreatorIds :
        \/ PoolGet(c)
        \/ LockCursor(c)
        \/ SelectBuilder(c)
        \/ IncrementCursor(c)
        \/ WrapCursorStep(c)
        \/ UnlockCursor(c)
        \/ Dial(c)
        \/ ReleaseLease(c)

PoolSpec == InitPoolSpec /\ [][PoolNext]_vars

(***************************************************************************)
(* The primary configuration: the accessors of Cosmos that read the first  *)
(* CosmosBuilder.                                                          *)
(***************************************************************************)
\* CosmosBuilder number i of a handle: its endpoint, its static data and
\* the fields of its config
LeaseBuilder(i) ==
    [grpc_url |-> i, chain_id |-> <<"chain", i>>, gas_coin |-> <<"coin", i>>,
     address_type |-> <<"hrp", i>>, rpc_url |-> FALSE,
     transaction_attempts |-> MaxTxAttempts,
     gas_estimate_multiplier |-> Fraction(10 + i, 10)]

LeaseBuilderLists ==
    {[i \in 1..n |-> LeaseBuilder(i)] : n \in 1..MaxPoolEndpoints}

\* variant of get_first_builder that reads the endpoint under the cursor
get_current_builder == builders[next_index + 1]

\* CosmosBuilders::get_first_builder: self.builders.first().expect(..)
get_first_builder == builders[1]

\* Cosmos::get_config: &get_first_builder().config
get_config ==
    LET b == get_first_builder
    IN  [rpc_url |-> b.rpc_url, transaction_attempts |-> b.transaction_attempts,
         gas_estimate_multiplier |-> b.gas_estimate_multiplier]

get_gas_coin == get_first_builder.gas_coin
get_gas_multiplier == get_config.gas_estimate_multiplier
get_address_type == get_first_builder.address_type

Accessors == {"get_first_builder", "get_config", "get_gas_coin",
              "get_gas_multiplier", "get_address_type"}

call_accessor(name) ==
    CASE name = "get_first_builder" -> get_first_builder
      [] name = "get_config" -> get_config
      [] name = "get_gas_coin" -> get_gas_coin
      [] name = "get_gas_multiplier" -> get_gas_multiplier
      [] name = "get_address_type" -> get_address_type

\* the pool after k leases were created and returned in order, by the
\* endpoint of each lease
IdleAfter(n, k) == [i \in 1..k |-> (i - 1) % n]

(***************************************************************************)
(* CallSpec: one call of a helper, its arguments drawn from bounded sets.  *)
(***************************************************************************)
\* one line of error text: prelude, needle, captured text, tail
LinePreludes == {<<>>, <<"blah blah blah">>}
LineNeedles == {<<>>, <<Needle>>}
LineCaptures == {<<>>, <<"5">>, <<"2", "0">>, <<"XXXXX">>, <<"+", "5">>}
LineTails == {<<>>, <<",", " got 0">>, <<",", " got 0", ",", " more">>}
TextLines ==
    {a \o d : a \in LinePreludes, d \in LineTails}
    \cup {a \o b \o c \o d : a \in LinePreludes, b \in LineNeedles \ {<<>>},
                             c \in LineCaptures, d \in LineTails}

\* the error text made of the lines ls
RECURSIVE JoinLines(_)
JoinLines(ls) ==
    IF Len(ls) = 1 THEN ls[1]
    ELSE JoinLines(SubSeq(ls, 1, Len(ls) - 1)) \o <<NewLine>> \o ls[Len(ls)]

\* a paginated source: page i has two items or none, and its response
\* carries no pagination info, an empty next-key, or the key of page i + 1
ItemsOf(i) == <<2 * i - 1, 2 * i>>
PageShapes == [has_items : BOOLEAN, next : {"absent", "empty", "key"}]
PageOf(shape, i) ==
    [items |-> IF shape.has_items THEN ItemsOf(i) ELSE <<>>,
     pagination |-> [present |-> shape.next # "absent",
                     next_key |-> IF shape.next = "key" THEN i + 1 ELSE 0]]
SourcesOf(n) ==
    {[i \in 1..n |-> PageOf(src[i], i)] :
        src \in {f \in [1..n -> PageShapes] : f[n].next # "key"}}
PageSources == UNION {SourcesOf(n) : n \in 1..MaxPages}

\* all items of the source, in page order
RECURSIVE AllItems(_)
AllItems(pages) ==
    IF pages = <<>> THEN <<>> ELSE Head(pages).items \o AllItems(Tail(pages))

Min(a, b) == IF a <= b THEN a ELSE b

\* the node's answer to a page request: the first page without a request
\* cursor, the page a non-empty key names, and for an empty key the items
\* after `offset` (at most `limit`, or the default page size for limit 0)
respond(pages, req) ==
    IF ~req.present THEN pages[1]
    ELSE IF req.key # 0 THEN pages[req.key]
    ELSE LET all == AllItems(pages)
             limit == IF req.limit = 0 THEN 100 ELSE req.limit
         IN  [items |-> SubSeq(all, req.offset + 1, Min(req.offset + limit, Len(all))),
              pagination |-> [present |-> TRUE, next_key |-> 0]]

\* the phrasings of a node that has pruned its first blocks
NeedleLowest == "lowest height is"
NeedleBase == "base height: "
Blank == " "

\* str::trim on tokens
RECURSIVE TrimStart(_)
TrimStart(s) == IF s # <<>> /\ Head(s) = Blank THEN TrimStart(Tail(s)) ELSE s

RECURSIVE TrimEnd(_)
TrimEnd(s) ==
    IF s # <<>> /\ s[Len(s)] = Blank THEN TrimEnd(SubSeq(s, 1, Len(s) - 1)) ELSE s

Trim(s) == TrimEnd(TrimStart(s))

\* trimmed.strip_suffix(')').unwrap_or(trimmed)
StripSuffix(s, t) ==
    IF s # <<>> /\ s[Len(s)] = t THEN SubSeq(s, 1, Len(s) - 1) ELSE s

\* Option<i64>
NoHeight == [some |-> FALSE, value |-> 0]
SomeHeight(v) == [some |-> TRUE, value |-> v]

\* str::parse::<i64>: an optional sign, then digits and nothing else
ParseI64(s) ==
    LET signed == s # <<>> /\ Head(s) \in {"+", "-"}
        body == IF signed THEN Tail(s) ELSE s
    IN  IF body # <<>> /\ \A i \in 1..Len(body) : IsDigit(body[i])
        THEN SomeHeight(IF signed /\ Head(s) = "-"
                        THEN 0 - DigitsValue(body, 0) ELSE DigitsValue(body, 0))
        ELSE NoHeight

\* the closure per_needle of get_earliest_block_info:
\* message.split(needle).nth(1)?.trim(), without one trailing ')', parsed
per_needle(message, needle) ==
    LET at == FindTok(message, needle)
    IN  IF at = 0 THEN NoHeight
        ELSE LET rest == SubSeq(message, at + 1, Len(message))
                 next == FindTok(rest, needle)
                 part == IF next = 0 THEN rest ELSE SubSeq(rest, 1, next - 1)
                 trimmed == Trim(part)
                 stripped == StripSuffix(trimmed, ")")
             IN  ParseI64(stripped)

\* variant of hinted_height that reads the message of any error
hinted_height_of_any_error(err) ==
    LET lowest == per_needle(err.message, NeedleLowest)
    IN  IF lowest.some THEN lowest ELSE per_needle(err.message, NeedleBase)

\* get_earliest_block_info: err.downcast_ref::<tonic::Status>().and_then(..),
\* the needles tried in the order "lowest height is", "base height: "
hinted_height(err) ==
    IF ~err.is_status THEN NoHeight
    ELSE LET lowest == per_needle(err.message, NeedleLowest)
         IN  IF lowest.some THEN lowest ELSE per_needle(err.message, NeedleBase)

\* error messages of the first block request
BlockNumbers == {<<"7">>, <<"1", "2">>, <<"-", "3">>, <<"x">>}
BlockGaps == {<<>>, <<Blank>>}
BlockSuffixes == {<<>>, <<")">>, <<Blank, ")">>, <<Blank, "more">>}
HintSegments ==
    {<<needle>> \o g \o n \o x :
        needle \in {NeedleLowest, NeedleBase}, g \in BlockGaps,
        n \in BlockNumbers, x \in BlockSuffixes}
BlockPrefixes == {<<>>, <<"height 1 is not available, ">>}
SecondSegments ==
    {<<NeedleLowest, "4">>, <<NeedleBase, "9">>, <<NeedleLowest, "x">>}
BlockMessages ==
    {<<"some other error">>}
    \cup {p \o a : p \in BlockPrefixes, a \in HintSegments}
    \cup {a \o b : a \in HintSegments, b \in SecondSegments}

\* the error of the second block request
SecondError == StatusError(<<"second request failed">>)

GasAmounts == {0, 1, 1000, 1234, 1604}
Multipliers == {Fraction(1, 1), Fraction(13, 10), Fraction(42, 10)}

\* get_expected_sequence on an error text of the lines ls
ParseCall(ls) ==
    [NoCall EXCEPT !.fn = "get_expected_sequence", !.message = JoinLines(ls)]
GasCalls ==
    {[NoCall EXCEPT !.fn = "gas_to_coins", !.gas = g, !.attempt = a]
        : g \in GasAmounts, a \in 0..(MaxAttempts + 1)}
PadCalls ==
    {[NoCall EXCEPT !.fn = "multiply_estimated_gas", !.gas = g, !.multiplier = m]
        : g \in GasAmounts, m \in Multipliers}
PageCalls ==
    {[NoCall EXCEPT !.fn = f, !.pages = ps]
        : f \in {"all_balances", "query_granter_grants"}, ps \in PageSources}
AccessorCalls == {[NoCall EXCEPT !.fn = name] : name \in Accessors}
BlockCalls ==
    {[NoCall EXCEPT !.fn = "get_earliest_block_info", !.reply = "ok"]}
    \cup {[NoCall EXCEPT !.fn = "get_earliest_block_info", !.reply = r, !.message = m]
            : r \in {"status", "other"}, m \in BlockMessages}
OtherCalls ==
    GasCalls \cup PadCalls \cup PageCalls \cup AccessorCalls \cup BlockCalls

InitTask ==
    /\ pc = "start"
    /\ sim_call = 1
    /\ sim_sequence = 0
    /\ gas_to_request = 0
    /\ base_account = [kind |-> "none", account_number |-> 0, sequence |-> 0]
    /\ sequence = 0
    /\ pass = 1
    /\ attempt_number = 0
    /\ tx = NoTx
    /\ held = <<>>
    /\ wait_attempt = 0
    /\ result = Pending
    /\ sim_log = <<>>
    /\ sign_log = <<>>
    /\ bc_log = <<>>
    /\ polls = 0
    /\ last_poll = NoPoll
    /\ slept = 0
    /\ rpc_log = {}

InitCallSpec ==
    /\ \/ \E n \in 1..MaxLines : \E ls \in [1..n -> TextLines] :
             fn_call = ParseCall(ls)
       \/ fn_call \in OtherCalls
    /\ builders \in
          (IF fn_call.fn \in Accessors THEN LeaseBuilderLists
           ELSE {<<[rpc_url |-> FALSE, transaction_attempts |-> MaxTxAttempts]>>})
    /\ next_index \in
          (IF fn_call.fn \in Accessors THEN 0..(Len(builders) - 1) ELSE {0})
    /\ idle \in
          (IF fn_call.fn \in Accessors
           THEN {IdleAfter(Len(builders), k) :
                    k \in {j \in 0..MaxCreations : j % Len(builders) = next_index}}
           ELSE {<<>>})
    /\ InitCreators
    /\ skip_code_check = FALSE
    /\ entry = "sign_and_broadcast"
    /\ InitTask
    /\ gas_price_retry_attempts \in
          (IF fn_call.fn = "gas_to_coins" THEN 0..MaxAttempts ELSE {0})
    /\ fn_ret = NoRet
    /\ pagination = NoPage
    /\ acc = <<>>
    /\ page_requests = <<>>
    /\ block_requests = <<>>
    /\ InitNoLease
    /\ InitNoWallet
    /\ InitNoSubmit

submission_vars == <<pool_vars, config_vars, task_vars, log_vars, creator_vars,
                     lease_vars, wallet_vars, submit_vars>>

\* get_expected_sequence(message)
CallGetExpectedSequence ==
    /\ fn_call.fn = "get_expected_sequence"
    /\ fn_ret = NoRet
    /\ fn_ret' = Returned(get_expected_sequence(fn_call.message))
    /\ UNCHANGED <<submission_vars, fn_call, pagination, acc, page_requests,
                   block_requests>>

\* cosmos.gas_to_coins(gas, attempt_number)
CallGasToCoins ==
    /\ fn_call.fn = "gas_to_coins"
    /\ fn_ret = NoRet
    /\ LET amount == gas_to_coins(fn_call.gas, fn_call.attempt)
       IN  fn_ret' = IF amount = Panicked
                     THEN [status |-> "panic", value |-> 0, items |-> <<>>,
                           error |-> NoError]
                     ELSE Returned(amount)
    /\ UNCHANGED <<submission_vars, fn_call, pagination, acc, page_requests,
                   block_requests>>

\* (gas_used as f64 * multiplier) as u64
CallMultiplyEstimatedGas ==
    /\ fn_call.fn = "multiply_estimated_gas"
    /\ fn_ret = NoRet
    /\ fn_ret' = Returned(MulTrunc(fn_call.gas, fn_call.multiplier))
    /\ UNCHANGED <<submission_vars, fn_call, pagination, acc, page_requests,
                   block_requests>>

\* Cosmos::all_balances: one iteration of the loop
AllBalancesRequest ==
    /\ fn_call.fn = "all_balances"
    /\ fn_ret = NoRet
    /\ Len(page_requests) < MaxRequests
    /\ page_requests' = Append(page_requests, pagination)
    /\ \E ok \in BOOLEAN :
         IF ~ok
         THEN /\ fn_ret' = Failed
              /\ pagination' = NoPage
              /\ UNCHANGED acc
         ELSE LET res == respond(fn_call.pages, pagination)
                  coins == acc \o res.items
              IN  /\ acc' = coins
                  /\ IF res.pagination.present /\ res.pagination.next_key # 0
                     THEN /\ pagination' = PageRequest(res.pagination.next_key, 0, 0)
                          /\ UNCHANGED fn_ret
                     ELSE /\ pagination' = NoPage
                          /\ fn_ret' = ReturnedItems(coins)
    /\ UNCHANGED <<submission_vars, fn_call, block_requests>>

\* Cosmos::query_granter_grants: one iteration of the loop
GranterGrantsRequest ==
    /\ fn_call.fn = "query_granter_grants"
    /\ fn_ret = NoRet
    /\ Len(page_requests) < MaxRequests
    /\ page_requests' = Append(page_requests, pagination)
    /\ \E ok \in BOOLEAN :
         IF ~ok
         THEN /\ fn_ret' = Failed
              /\ pagination' = NoPage
              /\ UNCHANGED acc
         ELSE LET response == respond(fn_call.pages, pagination)
                  grants == response.items
                  pag_res == response.pagination
              IN  IF grants = <<>>
                  THEN /\ fn_ret' = ReturnedItems(acc)
                       /\ pagination' = NoPage
                       /\ UNCHANGED acc
                  ELSE /\ acc' = acc \o grants
                       /\ pagination' =
                             IF pag_res.present
                             THEN PageRequest(pag_res.next_key, Len(acc \o grants), 10)
                             ELSE NoPage
                       /\ UNCHANGED fn_ret
    /\ UNCHANGED <<submission_vars, fn_call, block_requests>>

\* cosmos.get_first_builder(), get_config(), get_gas_coin(),
\* get_gas_multiplier(), get_address_type()
CallAccessor ==
    /\ fn_call.fn \in Accessors
    /\ fn_ret.status = "none"
    /\ fn_ret' = Returned(call_accessor(fn_call.fn))
    /\ UNCHANGED <<submission_vars, fn_call, pagination, acc, page_requests,
                   block_requests>>

\* Cosmos::get_earliest_block_info; block_requests are the calls of
\* get_block_info, whose first outcome is an argument of the call here
CallGetEarliestBlockInfo ==
    /\ fn_call.fn = "get_earliest_block_info"
    /\ fn_ret = NoRet
    /\ LET err == IF fn_call.reply = "status"
                  THEN StatusError(fn_call.message)
                  ELSE OtherError(fn_call.message)
           height == hinted_height(err)
       IN  IF fn_call.reply = "ok"
           THEN /\ block_requests' = <<1>>
                /\ fn_ret' = Returned(1)
           ELSE IF height.some
           THEN /\ block_requests' = <<1, height.value>>
                /\ \E ok \in BOOLEAN :
                     fn_ret' = IF ok THEN Returned(height.value)
                               ELSE FailedWith(SecondError)
           ELSE /\ block_requests' = <<1>>
                /\ fn_ret' = FailedWith(err)
    /\ UNCHANGED <<submission_vars, fn_call, pagination, acc, page_requests>>

CallNext ==
    \/ CallAccessor
    \/ CallGetEarliestBlockInfo
    \/ CallGetExpectedSequence
    \/ CallGasToCoins
    \/ CallMultiplyEstimatedGas
    \/ AllBalancesRequest
    \/ GranterGrantsRequest

CallSpec == InitCallSpec /\ [][CallNext]_vars

(***************************************************************************)
(* LeaseSpec: concurrent callers of one Cosmos handle.  Each caller gets a *)
(* lease from the pool (Cosmos::inner), runs RPCs on its stubs and drops   *)
(* it; callers also read the primary configuration.  A lease is named by   *)
(* the number of its connection; get_next_builder is one step here (its    *)
(* interleavings are those of PoolSpec).                                   *)
(***************************************************************************)
\* variant of recycle that rejects a lease on which an RPC has failed
recycle_healthy(lease) == lease \notin failed_leases

\* Manager::recycle: Ok(())
recycle(lease) == TRUE

\* variant of dial_again that dials once more after every failure
dial_again_always == TRUE

\* Manager::create makes one call of build_inner and Pool::get hands its
\* error to the caller: is there another dial after a failed one
dial_again == FALSE

\* Cosmos::inner returned Err: the caller has no lease
ConnectFailed == -2

\* variant of take_idle that leaves the lease in the pool
take_idle_shared(leases) == leases

\* Pool::get: the idle leases left after the oldest one was taken
take_idle(leases) == Tail(leases)

\* the callers with a call in flight on a stub of the lease
InFlight(lease) == {c \in CreatorIds : cpc[c] = "rpc" /\ lease_of[c] = lease}

InitLeaseSpec ==
    /\ builders \in LeaseBuilderLists
    /\ next_index = 0
    /\ idle = <<>>
    /\ InitCreators
    /\ gas_price_retry_attempts = 0
    /\ skip_code_check = FALSE
    /\ entry = "sign_and_broadcast"
    /\ InitTask
    /\ InitNoCall
    /\ InitNoLease
    /\ InitNoWallet
    /\ InitNoSubmit

other_vars == <<config_vars, task_vars, log_vars, call_vars, wallet_vars, submit_vars>>

\* Cosmos::inner, Pool::get: the oldest idle lease if Manager::recycle
\* accepts it (a rejected one is dropped and the next is tried); without an
\* idle lease Manager::create: get_next_builder, then the dial
LeaseGet(c) ==
    /\ cpc[c] = "idle"
    /\ IF idle # <<>>
       THEN /\ idle' = take_idle(idle)
            /\ IF recycle(Head(idle))
               THEN /\ lease_of' = [lease_of EXCEPT ![c] = Head(idle)]
                    /\ cpc' = [cpc EXCEPT ![c] = "holding"]
               ELSE UNCHANGED <<lease_of, cpc>>
            /\ UNCHANGED <<next_index, cres, created>>
       ELSE /\ Len(created) < MaxCreations
            /\ cres' = [cres EXCEPT ![c] = next_index]
            /\ created' = Append(created, next_index)
            /\ next_index' = AdvanceCursor(next_index, Len(builders))
            /\ cpc' = [cpc EXCEPT ![c] = "dial"]
            /\ lease_of' = [lease_of EXCEPT ![c] = None]
            /\ UNCHANGED idle
    /\ UNCHANGED <<builders, lock_holders, lock_order, connections,
                   dial_attempts, failed_leases, other_vars>>

\* CosmosBuilder::build_inner: the connect ends within 5 seconds with a
\* channel (the caller gets the new lease), or it fails or times out (the
\* caller gets the error)
LeaseDial(c) ==
    /\ cpc[c] = "dial"
    /\ dial_attempts' = dial_attempts + 1
    /\ \E connected \in BOOLEAN :
         IF connected
         THEN /\ connections' = Append(connections, cres[c])
              /\ lease_of' = [lease_of EXCEPT ![c] = Len(connections) + 1]
              /\ cres' = [cres EXCEPT ![c] = None]
              /\ cpc' = [cpc EXCEPT ![c] = "holding"]
         ELSE /\ cpc' = [cpc EXCEPT ![c] =
                            IF dial_again THEN "dial" ELSE "idle"]
              /\ cres' = [cres EXCEPT ![c] =
                            IF dial_again THEN cres[c] ELSE None]
              /\ lease_of' = [lease_of EXCEPT ![c] =
                            IF dial_again THEN lease_of[c] ELSE ConnectFailed]
              /\ UNCHANGED connections
    /\ UNCHANGED <<pool_vars, lock_holders, lock_order, created, failed_leases,
                   other_vars>>

\* inner.<stub>.lock().await: the caller takes the tokio Mutex of a stub
\* of its lease and sends the request
RpcStart(c) ==
    /\ cpc[c] = "holding"
    /\ InFlight(lease_of[c]) = {}
    /\ cpc' = [cpc EXCEPT ![c] = "rpc"]
    /\ UNCHANGED <<pool_vars, lock_holders, cres, lock_order, created,
                   lease_vars, other_vars>>

\* the call returns a response or an error; the stub's guard is dropped
RpcEnd(c) ==
    /\ cpc[c] = "rpc"
    /\ cpc' = [cpc EXCEPT ![c] = "holding"]
    /\ \E ok \in BOOLEAN :
         failed_leases' =
            IF ok THEN failed_leases ELSE failed_leases \cup {lease_of[c]}
    /\ UNCHANGED <<pool_vars, lock_holders, cres, lock_order, created,
                   connections, dial_attempts, lease_of, other_vars>>

\* the caller drops its Object: the lease goes back to the pool
LeaseRelease(c) ==
    /\ cpc[c] = "holding"
    /\ idle' = Append(idle, lease_of[c])
    /\ lease_of' = [lease_of EXCEPT ![c] = None]
    /\ cpc' = [cpc EXCEPT ![c] = "idle"]
    /\ UNCHANGED <<builders, next_index, lock_holders, cres, lock_order,
                   created, connections, dial_attempts, failed_leases,
                   other_vars>>

LeaseNext ==
    \E c \in CreatorIds :
        \/ LeaseGet(c)
        \/ LeaseDial(c)
        \/ RpcStart(c)
        \/ RpcEnd(c)
        \/ LeaseRelease(c)

LeaseSpec == InitLeaseSpec /\ [][LeaseNext]_vars

(***************************************************************************)
(* WalletSpec: concurrent submissions from one wallet through one client   *)
(* handle.  Each follows inner_sign_and_broadcast: get_base_account, then  *)
(* sign_and_broadcast_with the sequence read, once more with the sequence  *)
(* the node names.  The node accepts a transaction whose sequence is the   *)
(* one of the account and then counts the account's sequence up.           *)
(***************************************************************************)
InitWalletSpec ==
    /\ InitPool
    /\ InitCreators
    /\ gas_price_retry_attempts = 0
    /\ skip_code_check \in BOOLEAN
    /\ entry = "sign_and_broadcast_with_gas"
    /\ InitTask
    /\ InitNoCall
    /\ InitNoLease
    /\ account_sequence \in 0..MaxSeq
    /\ wpc = [c \in CreatorIds |-> "start"]
    /\ wsequence = [c \in CreatorIds |-> 0]
    /\ wpass = [c \in CreatorIds |-> 1]
    /\ wlog = <<>>
    /\ InitNoSubmit

rest_vars == <<pool_vars, config_vars, task_vars, log_vars, creator_vars,
               call_vars, lease_vars, submit_vars>>

\* the replies of the node to a broadcast signed with sequence seq: the
\* sequence check of the node, a failure of the transport, or a rejection
\* for another reason (code 5)
NodeReplies(seq) ==
    {[kind |-> "err", code |-> 0, raw_log |-> <<>>],
     [kind |-> "ok", code |-> 5, raw_log |-> MsgOther],
     IF seq = account_sequence
     THEN [kind |-> "ok", code |-> 0, raw_log |-> <<>>]
     ELSE [kind |-> "ok", code |-> 32, raw_log |-> MsgMismatch(account_sequence)]}

\* inner_sign_and_broadcast: cosmos.get_base_account(wallet.address()).await?
WalletAccount(c) ==
    /\ wpc[c] = "start"
    /\ \E ok \in BOOLEAN :
         IF ok
         THEN /\ wsequence' = [wsequence EXCEPT ![c] = account_sequence]
              /\ wpc' = [wpc EXCEPT ![c] = "broadcast"]
         ELSE /\ wpc' = [wpc EXCEPT ![c] = "failed"]
              /\ UNCHANGED wsequence
    /\ UNCHANGED <<rest_vars, account_sequence, wpass, wlog>>

\* sign_and_broadcast_with / retry_with_price: the transaction is signed with
\* the sequence argument and broadcast; NewNumber from the first call leads
\* to the second call with the number of the node
WalletBroadcast(c) ==
    /\ wpc[c] = "broadcast"
    /\ \E r \in NodeReplies(wsequence[c]) :
         LET res == broadcast_result(r) IN
         /\ wlog' = Append(wlog, [submission |-> c, sequence |-> wsequence[c],
                                  pass |-> wpass[c], reply |-> r])
         /\ account_sequence' = IF r.kind = "ok" /\ r.code = 0
                                THEN account_sequence + 1 ELSE account_sequence
         /\ IF res.variant = "Ok"
            THEN /\ wpc' = [wpc EXCEPT ![c] = "wait"]
                 /\ UNCHANGED <<wsequence, wpass>>
            ELSE IF broadcast_again(wpass[c], res)
            THEN /\ wpass' = [wpass EXCEPT ![c] = 2]
                 /\ wsequence' = [wsequence EXCEPT ![c] = res.number]
                 /\ UNCHANGED wpc
            ELSE /\ wpc' = [wpc EXCEPT ![c] = "failed"]
                 /\ UNCHANGED <<wsequence, wpass>>
    /\ UNCHANGED rest_vars

\* retry_with_price: wait_for_transaction_body and the final code
WalletWait(c) ==
    /\ wpc[c] = "wait"
    /\ \E final \in {"done", "failed"} : wpc' = [wpc EXCEPT ![c] = final]
    /\ UNCHANGED <<rest_vars, account_sequence, wsequence, wpass, wlog>>

WalletNext ==
    \E c \in CreatorIds :
        \/ WalletAccount(c)
        \/ WalletBroadcast(c)
        \/ WalletWait(c)

WalletSpec == InitWalletSpec /\ [][WalletNext]_vars

(***************************************************************************)
(* SubmitSpec: concurrent submissions on a pool of at most MaxPoolSize     *)
(* leases whose Pool::get waits while no lease is idle and none may be     *)
(* created.  A submission takes a lease for the account query and gives it *)
(* back, takes one in retry_with_price for the broadcast and, still        *)
(* owning it, one more in wait_for_transaction_body.  The price tiers and  *)
(* the second pass, which repeat the broadcast, are followed in Spec.      *)
(***************************************************************************)
InitSubmitSpec ==
    /\ builders \in PoolBuilderLists
    /\ next_index = 0
    /\ idle = <<>>
    /\ InitCreators
    /\ gas_price_retry_attempts = 0
    /\ skip_code_check = FALSE
    /\ entry = "sign_and_broadcast_with_gas"
    /\ InitTask
    /\ InitNoCall
    /\ InitNoLease
    /\ InitNoWallet
    /\ InitNoSubmit

unsubmitted_vars == <<config_vars, task_vars, log_vars, creator_vars, call_vars,
                      lease_vars, wallet_vars>>

\* Pool::get of a pool with max_size MaxPoolSize: the oldest idle lease,
\* else Manager::create if fewer than max_size leases exist, else the
\* caller waits (no outcome)
pool_get ==
    IF idle # <<>>
    THEN {[ok |-> TRUE, lease |-> Head(idle), idle |-> Tail(idle),
           next_index |-> next_index, size |-> pool_size]}
    ELSE IF pool_size < MaxPoolSize
    THEN {[ok |-> d, lease |-> next_index, idle |-> idle,
           next_index |-> AdvanceCursor(next_index, Len(builders)),
           size |-> IF d THEN pool_size + 1 ELSE pool_size]
            : d \in BOOLEAN}
    ELSE {}

\* the position after cosmos.inner() returned a lease
Requesting(position) ==
    IF position = "account" THEN "account_rpc"
    ELSE IF position = "broadcast" THEN "broadcast_rpc"
    ELSE "wait_rpc"

\* cosmos.inner().await? in get_base_account, retry_with_price and
\* wait_for_transaction_body; an error ends the submission, whose leases go
\* back to the pool
SubmitGet(c) ==
    /\ spc[c] \in {"account", "broadcast", "wait"}
    /\ \E a \in pool_get :
         /\ next_index' = a.next_index
         /\ pool_size' = a.size
         /\ IF a.ok
            THEN /\ idle' = a.idle
                 /\ sheld' = [sheld EXCEPT ![c] = Append(sheld[c], a.lease)]
                 /\ spc' = [spc EXCEPT ![c] = Requesting(spc[c])]
            ELSE /\ idle' = a.idle \o sheld[c]
                 /\ sheld' = [sheld EXCEPT ![c] = <<>>]
                 /\ spc' = [spc EXCEPT ![c] = "failed"]
    /\ UNCHANGED <<builders, unsubmitted_vars>>

\* get_base_account: the reply arrives, the lease goes back to the pool
SubmitAccount(c) ==
    /\ spc[c] = "account_rpc"
    /\ idle' = idle \o sheld[c]
    /\ sheld' = [sheld EXCEPT ![c] = <<>>]
    /\ \E ok \in BOOLEAN :
         spc' = [spc EXCEPT ![c] = IF ok THEN "broadcast" ELSE "failed"]
    /\ UNCHANGED <<builders, next_index, pool_size, unsubmitted_vars>>

\* retry_with_price: the reply to the broadcast arrives; when it is accepted
\* the closure goes on to wait_for_transaction with its lease
SubmitBroadcast(c) ==
    /\ spc[c] = "broadcast_rpc"
    /\ \E ok \in BOOLEAN :
         IF ok
         THEN /\ spc' = [spc EXCEPT ![c] = "wait"]
              /\ UNCHANGED <<idle, sheld>>
         ELSE /\ spc' = [spc EXCEPT ![c] = "failed"]
              /\ idle' = idle \o sheld[c]
              /\ sheld' = [sheld EXCEPT ![c] = <<>>]
    /\ UNCHANGED <<builders, next_index, pool_size, unsubmitted_vars>>

\* wait_for_transaction_body: the reply to get_tx that ends the loop
\* arrives; both leases go back to the pool
SubmitPoll(c) ==
    /\ spc[c] = "wait_rpc"
    /\ idle' = ReleaseAll(idle, sheld[c])
    /\ sheld' = [sheld EXCEPT ![c] = <<>>]
    /\ \E ok \in BOOLEAN :
         spc' = [spc EXCEPT ![c] = IF ok THEN "done" ELSE "failed"]
    /\ UNCHANGED <<builders, next_index, pool_size, unsubmitted_vars>>

SubmitNext ==
    \E c \in CreatorIds :
        \/ SubmitGet(c)
        \/ SubmitAccount(c)
        \/ SubmitBroadcast(c)
        \/ SubmitPoll(c)

SubmitSpec == InitSubmitSpec /\ [][SubmitNext]_vars

(***************************************************************************)
(* Properties.                                                             *)
(***************************************************************************)
BcIdx == 1..Len(bc_log)

\* the accept response of broadcast b carries a result code
Accepted(b) == b.reply.kind = "ok"

\* the accept response of b is a non-zero code other than 13 whose raw log
\* yields an expected sequence
MismatchReply(b) ==
    /\ Accepted(b)
    /\ b.reply.code \notin {0, 13}
    /\ get_expected_sequence(b.reply.raw_log) # None

\* the accept response of b is a non-zero code other than 13 whose raw log
\* yields no expected sequence
FatalReply(b) ==
    /\ Accepted(b)
    /\ b.reply.code \notin {0, 13}
    /\ get_expected_sequence(b.reply.raw_log) = None

\* the broadcasts of pass p, in order
RECURSIVE PassOf(_, _)
PassOf(log, p) ==
    IF log = <<>> THEN <<>>
    ELSE IF Head(log).pass = p THEN <<Head(log)>> \o PassOf(Tail(log), p)
    ELSE PassOf(Tail(log), p)

AcceptCodes(p) ==
    LET bs == PassOf(bc_log, p)
    IN  [i \in 1..Len(bs) |-> IF Accepted(bs[i]) THEN bs[i].reply.code ELSE None]

\* the first simulation failed with a sequence mismatch naming N and the
\* second simulation, made with N, succeeded
SimulateCorrected ==
    /\ Len(sim_log) = 2
    /\ sim_log[1].reply.kind = "err"
    /\ get_expected_sequence(sim_log[1].reply.message) = sim_log[2].sequence
    /\ sim_log[2].reply.kind = "ok"

\* C1 as stated: after simulate corrected the sequence to N, the broadcast
\* that follows is signed with sequence N.
C1_BroadcastSignedWithSimulatedSequence ==
    (SimulateCorrected /\ bc_log # <<>>)
        => bc_log[1].tx.sequence = sim_log[2].sequence

\* C1 amended: the sequence simulate ended with is not handed on; every
\* broadcast of the first pass, also after a corrected simulation, is signed
\* with the sequence that the account query of inner_sign_and_broadcast
\* returned.  A broadcast of a later pass is signed with the sequence that
\* the accept response of an earlier broadcast named in a mismatch.
C1_BroadcastSignedWithQueriedSequence ==
    \A i \in BcIdx :
        /\ bc_log[i].pass = 1 =>
            /\ base_account.kind = "ok"
            /\ bc_log[i].tx.sequence = base_account.sequence
            /\ bc_log[i].tx.signature[1].sequence = base_account.sequence
        /\ bc_log[i].pass > 1 =>
            \E j \in 1..(i - 1) :
                /\ bc_log[j].pass = 1
                /\ MismatchReply(bc_log[j])
                /\ bc_log[i].tx.sequence =
                       get_expected_sequence(bc_log[j].reply.raw_log)

C1_Witness ==
    /\ SimulateCorrected
    /\ bc_log # <<>>
    /\ bc_log[1].tx.sequence # sim_log[2].sequence

\* C2: a pass of sign_and_broadcast_with makes at most
\* gas_price_retry_attempts + 1 broadcasts; the k-th broadcast of a pass
\* (from 0) is attempt k and offers the coin amount of tier k; attempt
\* gas_price_retry_attempts offers gas * gas_price_high.
C2_TierBudget ==
    \A p \in 1..pass :
        LET bs == PassOf(bc_log, p) IN
        /\ Len(bs) <= gas_price_retry_attempts + 1
        /\ \A k \in 1..Len(bs) :
             /\ bs[k].attempt_number = k - 1
             /\ bs[k].tx.fee_amount = gas_to_coins(gas_to_request, k - 1)
             /\ (k - 1 = gas_price_retry_attempts =>
                    bs[k].tx.fee_amount = MulTrunc(gas_to_request, gas_price_high))

C2_Witness ==
    /\ gas_price_retry_attempts = MaxAttempts
    /\ Len(PassOf(bc_log, 1)) = gas_price_retry_attempts + 1
    /\ Len(PassOf(bc_log, 2)) = gas_price_retry_attempts + 1
    /\ bc_log[1].tx.fee_amount < bc_log[2].tx.fee_amount

\* after broadcast i was answered with code 13 while a tier remained, the
\* engine is on its way to, or has made, the broadcast of the next tier in
\* the same pass
NextTierFollows(i) ==
    IF i < Len(bc_log)
    THEN /\ bc_log[i + 1].pass = bc_log[i].pass
         /\ bc_log[i + 1].attempt_number = bc_log[i].attempt_number + 1
         /\ bc_log[i + 1].tx.sequence = bc_log[i].tx.sequence
    ELSE /\ pc \in {"sign", "broadcast"}
         /\ pass = bc_log[i].pass
         /\ attempt_number = bc_log[i].attempt_number + 1

\* gas_price_retry_attempts = 2 and the accept codes were 13, 13, 0
ScenarioB ==
    /\ gas_price_retry_attempts = 2
    /\ AcceptCodes(1) = <<13, 13, 0>>

\* the finality poll returned the transaction with code 0
FinalCodeZero ==
    /\ last_poll.reply.kind = "ok"
    /\ last_poll.reply.code = 0

\* C3 as stated: an accept code 13 with a tier remaining is followed by a
\* broadcast at the next tier, and with two retry attempts and accept codes
\* 13, 13, 0 there are three broadcasts, the third at the high price, and
\* the operation succeeds.
C3_Code13AdvancesTier ==
    /\ \A i \in BcIdx :
         (Accepted(bc_log[i]) /\ bc_log[i].reply.code = 13
            /\ bc_log[i].attempt_number < gas_price_retry_attempts)
         => NextTierFollows(i)
    /\ (ScenarioB /\ pc = "done") =>
         /\ Len(bc_log) = 3
         /\ bc_log[3].tx.fee_amount = MulTrunc(gas_to_request, gas_price_high)
         /\ result.status = "ok"

\* C3 amended: unless skip_code_check is set, an accept code 13 with a tier
\* remaining is followed by a broadcast at exactly the next tier of the same
\* pass; with two retry attempts and accept codes 13, 13, 0 there are three
\* broadcasts, the third at the high price and accepted, and the operation
\* succeeds when the finality poll then returns the transaction with code 0.
C3_Code13AdvancesTierUnlessSkipped ==
    /\ \A i \in BcIdx :
         (~skip_code_check /\ Accepted(bc_log[i]) /\ bc_log[i].reply.code = 13
            /\ bc_log[i].attempt_number < gas_price_retry_attempts)
         => NextTierFollows(i)
    /\ ScenarioB =>
         /\ Len(bc_log) = 3
         /\ bc_log[3].attempt_number = 2
         /\ bc_log[3].tx.fee_amount = MulTrunc(gas_to_request, gas_price_high)
         /\ pc \in {"wait_inner", "wait_poll", "done"}
         /\ (pc = "done" /\ FinalCodeZero) =>
               (result.status = "ok" /\ result.code = 0)

C3_Witness ==
    /\ ScenarioB
    /\ pc = "done"
    /\ FinalCodeZero
    /\ result.status = "ok"

\* C4: simulate makes at most two simulate requests; the second is made only
\* after the first failed with a sequence mismatch naming a parseable N, and
\* it uses N; every other error of the first request and every error of the
\* second is returned with no further request.
C4_SimulateRetriesOnce ==
    /\ Len(sim_log) <= 2
    /\ Len(sim_log) = 2 =>
         /\ sim_log[1].reply.kind = "err"
         /\ get_expected_sequence(sim_log[1].reply.message) # None
         /\ sim_log[2].sequence = get_expected_sequence(sim_log[1].reply.message)
         /\ sim_log[2].reply.kind # "ok" =>
               (pc = "done" /\ result.status = "err" /\ bc_log = <<>>)
    /\ (Len(sim_log) >= 1 /\ sim_log[1].reply.kind # "ok"
          /\ get_expected_sequence(sim_log[1].reply.message) = None) =>
         (Len(sim_log) = 1 /\ pc = "done" /\ result.status = "err")

C4_Witness ==
    /\ Len(sim_log) = 2
    /\ sim_log[2].reply.kind = "err"
    /\ get_expected_sequence(sim_log[2].reply.message) # None
    /\ sim_log[2].sequence # sim_log[1].sequence
    /\ pc = "done"

\* after the mismatch reply to broadcast i of the first pass, the engine has
\* left that pass and runs the second pass with the reported sequence
SecondPassFollows(i) ==
    LET n == get_expected_sequence(bc_log[i].reply.raw_log) IN
    IF i < Len(bc_log)
    THEN /\ bc_log[i + 1].pass = 2
         /\ bc_log[i + 1].tx.sequence = n
    ELSE /\ sequence = n
         /\ pass = 2
         /\ pc \in {"sign", "broadcast"}

\* C5 as stated: a non-zero accept code other than 13 whose raw log yields N
\* ends the current pass and starts exactly one more pass with sequence N; a
\* mismatch in that second pass is returned as an error.
C5_MismatchStartsOneMorePass ==
    /\ pass <= 2
    /\ \A i \in BcIdx :
         /\ (bc_log[i].pass = 1 /\ MismatchReply(bc_log[i])) => SecondPassFollows(i)
         /\ (bc_log[i].pass = 2 /\ MismatchReply(bc_log[i])) =>
               (i = Len(bc_log) /\ pc = "done" /\ result.status = "err")

\* C5 amended: unless skip_code_check is set, a non-zero accept code other
\* than 13 whose raw log yields N ends the current pass and starts exactly
\* one more pass with sequence N; a mismatch in that second pass is returned
\* as an error and there is never a third pass.
C5_MismatchStartsOneMorePassUnlessSkipped ==
    /\ pass <= 2
    /\ \A i \in BcIdx :
         /\ bc_log[i].pass <= 2
         /\ (~skip_code_check /\ bc_log[i].pass = 1 /\ MismatchReply(bc_log[i]))
               => SecondPassFollows(i)
         /\ (~skip_code_check /\ bc_log[i].pass = 2 /\ MismatchReply(bc_log[i])) =>
               /\ i = Len(bc_log)
               /\ pc = "done"
               /\ result = Err("Initial transaction broadcast failed",
                               bc_log[i].reply.code, bc_log[i].reply.raw_log)

C5_Witness ==
    /\ ~skip_code_check
    /\ \E i \in BcIdx : bc_log[i].pass = 1 /\ MismatchReply(bc_log[i])
    /\ \E i \in BcIdx : bc_log[i].pass = 2 /\ MismatchReply(bc_log[i])
    /\ pc = "done"

\* the finality poll returned the transaction and its final code is not zero
FinalFailure ==
    /\ last_poll.reply.kind = "ok"
    /\ last_poll.reply.code # 0

\* C6 as stated: once the finality poll has returned the transaction, a
\* non-zero final code ends the submission with an error and no further
\* broadcast is made.
C6_FinalCodeIsTerminalError ==
    FinalFailure =>
        /\ pc = "done"
        /\ result.status = "err"
        /\ Len(bc_log) = last_poll.broadcasts

\* C6 amended: once the finality poll has returned the transaction, a
\* non-zero final code ends the submission and no further broadcast is made,
\* whatever the code and the raw log; the submission ends with an error
\* carrying that code and raw log unless skip_code_check is set, in which
\* case the response is returned as a success.
C6_FinalCodeIsTerminal ==
    FinalFailure =>
        /\ pc = "done"
        /\ Len(bc_log) = last_poll.broadcasts
        /\ pass = bc_log[Len(bc_log)].pass
        /\ attempt_number = bc_log[Len(bc_log)].attempt_number
        /\ IF skip_code_check
           THEN result = Ok(last_poll.reply.code, last_poll.reply.text)
           ELSE result = Err("Transaction failed", last_poll.reply.code,
                             last_poll.reply.text)

C6_Witness ==
    /\ ~skip_code_check
    /\ gas_price_retry_attempts > 0
    /\ Len(bc_log) = 1
    /\ FinalFailure
    /\ get_expected_sequence(last_poll.reply.text) # None
    /\ result.status = "err"

\* C7 as stated: when the high tier too is answered with accept code 13, the
\* submission fails with the error of that attempt and no retry pass starts.
C7_ExhaustedTiersFail ==
    \A i \in BcIdx :
        (Accepted(bc_log[i]) /\ bc_log[i].reply.code = 13
           /\ bc_log[i].attempt_number = gas_price_retry_attempts)
        => /\ i = Len(bc_log)
           /\ pc = "done"
           /\ pass = bc_log[i].pass
           /\ result = Err("Initial transaction broadcast failed", 13,
                           bc_log[i].reply.raw_log)

\* C7 amended: unless skip_code_check is set, when the high tier too is
\* answered with accept code 13, the submission fails with the error of that
\* attempt and no retry pass starts, also when the raw log of that response
\* contains a sequence-mismatch hint.
C7_ExhaustedTiersFailUnlessSkipped ==
    \A i \in BcIdx :
        (~skip_code_check /\ Accepted(bc_log[i]) /\ bc_log[i].reply.code = 13
           /\ bc_log[i].attempt_number = gas_price_retry_attempts)
        => /\ i = Len(bc_log)
           /\ pc = "done"
           /\ pass = bc_log[i].pass
           /\ result = Err("Initial transaction broadcast failed", 13,
                           bc_log[i].reply.raw_log)

C7_Witness ==
    /\ ~skip_code_check
    /\ gas_price_retry_attempts = MaxAttempts
    /\ AcceptCodes(1) = [k \in 1..(MaxAttempts + 1) |-> 13]
    /\ get_expected_sequence(bc_log[Len(bc_log)].reply.raw_log) # None
    /\ pass = 1
    /\ pc = "done"

\* C8 as stated: a non-zero accept code other than 13 whose raw log yields
\* no expected sequence aborts the submission with an error carrying the
\* code and the raw log; no later tier and no retry pass follow.
C8_OtherCodeAborts ==
    \A i \in BcIdx :
        FatalReply(bc_log[i])
        => /\ i = Len(bc_log)
           /\ pc = "done"
           /\ pass = bc_log[i].pass
           /\ result = Err("Initial transaction broadcast failed",
                           bc_log[i].reply.code, bc_log[i].reply.raw_log)

\* C8 amended: unless skip_code_check is set, a non-zero accept code other
\* than 13 whose raw log yields no expected sequence aborts the submission
\* with an error carrying the code and the raw log; no later tier and no
\* retry pass follow.
C8_OtherCodeAbortsUnlessSkipped ==
    \A i \in BcIdx :
        (~skip_code_check /\ FatalReply(bc_log[i]))
        => /\ i = Len(bc_log)
           /\ pc = "done"
           /\ pass = bc_log[i].pass
           /\ result = Err("Initial transaction broadcast failed",
                           bc_log[i].reply.code, bc_log[i].reply.raw_log)

C8_Witness ==
    /\ ~skip_code_check
    /\ gas_price_retry_attempts > 0
    /\ Len(bc_log) = 1
    /\ FatalReply(bc_log[1])
    /\ pc = "done"

\* the signing document that matches the fields of transaction t
DocOfTx(t) ==
    [body |-> t.body, fee_amount |-> t.fee_amount, fee_denom |-> t.fee_denom,
     gas_limit |-> t.gas_limit, sequence |-> t.sequence,
     chain_id |-> chain_id, account_number |-> base_account.account_number]

\* C9: every broadcast transaction carries the signature made in the same
\* attempt over the signing document whose fee, gas limit, sequence, account
\* number, chain id and body are those of the transaction.
C9_SignatureMatchesTx ==
    \A i \in BcIdx :
        /\ bc_log[i].tx.signature = sign_bytes(DocOfTx(bc_log[i].tx))
        /\ i <= Len(sign_log)
        /\ sign_log[i].pass = bc_log[i].pass
        /\ sign_log[i].attempt_number = bc_log[i].attempt_number
        /\ sign_bytes(sign_log[i].doc) = bc_log[i].tx.signature
        /\ bc_log[i].tx.body = Body
        /\ bc_log[i].tx.gas_limit = gas_to_request

C9_Witness ==
    /\ \E i, j \in BcIdx :
         /\ bc_log[i].tx.fee_amount # bc_log[j].tx.fee_amount
         /\ bc_log[i].tx.sequence = bc_log[j].tx.sequence
    /\ \E i, j \in BcIdx : bc_log[i].tx.sequence # bc_log[j].tx.sequence

\* C10: the k-th lease creation in the order the creations took the cursor
\* lock (k from 0) selects endpoint k mod N, under every interleaving; so
\* the first N creations select every endpoint once, in configured order.
C10_RoundRobin ==
    /\ Len(created) = Len(lock_order)
    /\ \A k \in 1..Len(created) :
         created[k] # None => created[k] = (k - 1) % Len(builders)
    /\ \A k \in 1..Len(created) :
         (k <= Len(builders) /\ created[k] # None) => created[k] = k - 1

C10_Witness ==
    /\ Len(builders) = MaxPoolEndpoints
    /\ Len(created) > Len(builders)
    /\ created[Len(created)] = (Len(created) - 1) % Len(builders)
    /\ \E k \in 1..(Len(lock_order) - 1) : lock_order[k] # lock_order[k + 1]

\* the cursor indexes an endpoint
CursorInRange == 0 <= next_index /\ next_index < Len(builders)

\* some creator is between `*guard += 1` and the wrap test that follows it
\* in the same critical section
MidAdvance == \E c \in CreatorIds : cpc[c] = "incremented"

\* C11: under every interleaving of lease creations on a pool with at least
\* one endpoint, the cursor that a creation finds when it takes the lock, and
\* the cursor it leaves behind, index a configured endpoint (past the end it
\* is wrapped to 0 before the lock is released), and the indexed lookup of
\* get_next_builder never fails.
C11_CursorInRange ==
    /\ Len(builders) >= 1
    /\ ~MidAdvance => CursorInRange
    /\ \A c \in CreatorIds : cpc[c] # "panicked"
    /\ \A k \in 1..Len(created) :
         created[k] # None => (0 <= created[k] /\ created[k] < Len(builders))

C11_Witness ==
    /\ Len(builders) = MaxPoolEndpoints
    /\ Len(created) = Len(builders) + 1
    /\ created[Len(builders)] = Len(builders) - 1
    /\ created[Len(created)] = 0
    /\ next_index = 1
    /\ CursorLockFree
    /\ \E k \in 1..(Len(lock_order) - 1) : lock_order[k] # lock_order[k + 1]

\* the attempt budget of the endpoint the finality poll runs on
PollBudget == Builder(last_poll.lease).transaction_attempts

\* reply r has status code NotFound or a message containing "not found"
SaysNotFound(r) ==
    \/ r.status = "NotFound"
    \/ \E i \in 1..Len(r.text) : r.text[i] = "tx not found"

\* the last get_tx reply was an error that says 'not found'
LastNotFound == last_poll.reply.kind = "err" /\ SaysNotFound(last_poll.reply)

\* the submission ended with the timeout failure of wait_for_transaction
ResultTimedOut == pc = "done" /\ result = TimedOut

\* C12: wait_for_transaction makes at most transaction_attempts get_tx
\* queries; every query before the last one was answered 'not found' and
\* followed by a sleep of 2 seconds; a successful reply ends the wait at
\* once; the wait ends with the timeout failure exactly when
\* transaction_attempts replies have all been 'not found'.
C12_PollBudget ==
    /\ polls = 0 => (slept = 0 /\ last_poll = NoPoll)
    /\ polls > 0 =>
         /\ polls <= PollBudget
         /\ last_poll.attempt = polls
         /\ slept = DELAY_SECONDS * (IF LastNotFound THEN polls ELSE polls - 1)
         /\ last_poll.reply.kind = "ok" => pc = "done"
         /\ (LastNotFound /\ polls < PollBudget) =>
               (pc = "wait_poll" /\ wait_attempt = polls + 1)
         /\ (LastNotFound /\ polls = PollBudget) => ResultTimedOut
    /\ ResultTimedOut => (LastNotFound /\ polls = PollBudget)
    /\ pc = "wait_poll" => (polls = wait_attempt - 1 /\ polls < MaxTxAttempts)

C12_Witness ==
    /\ polls = MaxTxAttempts
    /\ slept = DELAY_SECONDS * MaxTxAttempts
    /\ last_poll.reply.status = "NotFound"
    /\ ResultTimedOut

\* the last get_tx reply was an error that does not mean 'not found'
LastOtherError == last_poll.reply.kind = "err" /\ ~SaysNotFound(last_poll.reply)

\* C13: a get_tx error that is not 'not found' ends the wait at once with
\* that error: no sleep and no further query follow it, however many
\* attempts remain.
C13_OtherErrorIsFatal ==
    LastOtherError =>
        /\ pc = "done"
        /\ result = Err("get_tx", 0, last_poll.reply.text)
        /\ polls = last_poll.attempt
        /\ slept = DELAY_SECONDS * (polls - 1)
        /\ Len(bc_log) = last_poll.broadcasts

C13_Witness ==
    /\ LastOtherError
    /\ last_poll.attempt = 1
    /\ PollBudget > 1
    /\ result.status = "err"

\* the text of the failure the submission ended with names token t
ResultNames(t) == \E i \in 1..Len(result.raw_log) : result.raw_log[i] = t

\* C14 as stated: the failure returned when the attempts are exhausted is a
\* timeout failure that carries the transaction hash and the attempt budget.
C14_TimeoutNamesHashAndBudget ==
    (pc = "done" /\ LastNotFound /\ polls = PollBudget) =>
        /\ result.status = "err"
        /\ result.kind = "Timed out"
        /\ ResultNames(TxHash)
        /\ ResultNames(DigitTok(PollBudget))

\* the call of function f has returned
Ran(f) == fn_call.fn = f /\ fn_ret # NoRet

\* the decimal numeral of n, for the numbers that occur in the texts
Numbers == 0..99
Decimal(n) ==
    IF n < 10 THEN <<DigitTok(n)>> ELSE <<DigitTok(n \div 10), DigitTok(n % 10)>>

\* the number a captured text stands for: a numeral, possibly after "+"
NumberOf(cap) ==
    IF \E n \in Numbers : cap = Decimal(n) \/ cap = <<"+">> \o Decimal(n)
    THEN CHOOSE n \in Numbers : cap = Decimal(n) \/ cap = <<"+">> \o Decimal(n)
    ELSE None

\* the number parsed from a line after the needle that starts it and before
\* the next comma
LineNumber(line) ==
    IF /\ line # <<>>
       /\ line[1] = Needle
       /\ \E c \in 2..Len(line) : line[c] = ","
    THEN LET c == CHOOSE c \in 2..Len(line) :
                      line[c] = "," /\ \A j \in 2..(c - 1) : line[j] # ","
         IN  NumberOf(SubSeq(line, 2, c - 1))
    ELSE None

\* C15: get_expected_sequence returns the number of the first line from
\* which a number can be parsed after the needle and before the next comma,
\* skipping lines that match but do not parse, and nothing when there is no
\* such line; "...expected 5, got 0" gives 5, "...expected XXXXX, got 0" and
\* unrelated text give nothing.
C15_FirstParseableLine ==
    Ran("get_expected_sequence") =>
        LET ls == Lines(fn_call.message)
            good == {k \in 1..Len(ls) : LineNumber(ls[k]) # None}
        IN  /\ fn_ret.status = "ok"
            /\ IF good = {}
               THEN fn_ret.value = None
               ELSE \E k \in good :
                      /\ \A j \in good : k <= j
                      /\ fn_ret.value = LineNumber(ls[k])
            /\ fn_call.message = <<Needle, "5", ",", " got 0">> => fn_ret.value = 5
            /\ fn_call.message = <<Needle, "XXXXX", ",", " got 0">> => fn_ret.value = None
            /\ fn_call.message = <<"blah blah blah">> => fn_ret.value = None

C15_Witness ==
    /\ Ran("get_expected_sequence")
    /\ fn_call.message = <<Needle, "XXXXX", ",", " got 0", NewLine,
                           Needle, "2", "0", ",", " got 0">>
    /\ fn_ret.value = 20

\* line contains, at position j, the needle followed by the numeral of n
\* and a comma
PatternAt(line, j, n) ==
    LET d == Decimal(n) IN
    /\ j + Len(d) + 1 <= Len(line)
    /\ line[j] = Needle
    /\ SubSeq(line, j + 1, j + Len(d)) = d
    /\ line[j + Len(d) + 1] = ","

\* the numbers N for which some line of the text contains the pattern
PatternNumbers(message) ==
    LET ls == Lines(message)
    IN  {n \in Numbers : \E k \in 1..Len(ls) : \E j \in 1..Len(ls[k]) :
                             PatternAt(ls[k], j, n)}

\* C16 as stated: when some line of the text contains the pattern with
\* number N, the result is N, whatever precedes the pattern (on earlier
\* lines or on the same line) or follows it.
C16_ToleratesSurroundingText ==
    Ran("get_expected_sequence") =>
        (PatternNumbers(fn_call.message) # {}
            => fn_ret.value \in PatternNumbers(fn_call.message))

\* C16 amended: when some line begins with the pattern with number N and no
\* earlier line begins with the needle, the result is N, whatever the other
\* lines hold and whatever follows the comma; a line on which text precedes
\* the needle is skipped, and the result is nothing when no line begins
\* with the needle.
C16_ToleratesTextAroundMatchingLine ==
    Ran("get_expected_sequence") =>
        LET ls == Lines(fn_call.message)
            begins(k) == ls[k] # <<>> /\ ls[k][1] = Needle
        IN  /\ \A k \in 1..Len(ls) : \A n \in Numbers :
                   (PatternAt(ls[k], 1, n) /\ \A j \in 1..(k - 1) : ~begins(j))
                   => fn_ret.value = n
            /\ (\A k \in 1..Len(ls) : ~begins(k)) => fn_ret.value = None

C16_Witness ==
    /\ Ran("get_expected_sequence")
    /\ fn_call.message = <<"blah blah blah", Needle, "5", ",", " got 0", NewLine,
                           Needle, "2", "0", ",", " got 0", ",", " more">>
    /\ fn_ret.value = 20

\* fractions compared by cross-multiplication
FracEq(p, q) == p.num * q.den = q.num * p.den
FracLeq(p, q) == p.num * q.den <= q.num * p.den

\* C17: the price of an attempt is low + (high - low) / attempts * attempt
\* below the configured attempt count and high from it on; it is low at
\* attempt 0 of a positive attempt count and never decreases from one
\* attempt to the next; the coin amount is gas times price, truncated.
C17_PriceInterpolation ==
    Ran("gas_to_coins") =>
        LET a == fn_call.attempt
            n == gas_price_retry_attempts
            price == gas_price(a)
            low == gas_price_low
            high == gas_price_high
        IN  /\ fn_ret.status = "ok"
            /\ a >= n => price = high
            /\ a < n =>
                 \* (price - low) * n = (high - low) * a
                 (price.num * low.den - low.num * price.den) * n * high.den
                    = (high.num * low.den - low.num * high.den) * a * price.den
            /\ (a = 0 /\ n > 0) => FracEq(price, low)
            /\ \A b \in 0..(MaxAttempts + 1) : FracLeq(gas_price(b), gas_price(b + 1))
            /\ fn_ret.value * price.den <= fn_call.gas * price.num
            /\ fn_call.gas * price.num < (fn_ret.value + 1) * price.den

C17_Witness ==
    /\ Ran("gas_to_coins")
    /\ 0 < fn_call.attempt
    /\ fn_call.attempt < gas_price_retry_attempts
    /\ MulTrunc(fn_call.gas, gas_price_low) < fn_ret.value
    /\ fn_ret.value < MulTrunc(fn_call.gas, gas_price_high)

\* C18: gas_to_coins never fails its assertion, and with
\* gas_price_retry_attempts = 0 every pass makes one attempt only, at
\* attempt number 0 and priced at gas_price_high.
C18_ZeroAttemptsGoStraightToHigh ==
    /\ pc # "panicked"
    /\ gas_price_retry_attempts = 0 =>
         /\ \A i \in 1..Len(sign_log) :
              /\ sign_log[i].attempt_number = 0
              /\ sign_log[i].doc.fee_amount = MulTrunc(gas_to_request, gas_price_high)
         /\ \A i \in BcIdx :
              /\ bc_log[i].attempt_number = 0
              /\ bc_log[i].tx.fee_amount = MulTrunc(gas_to_request, gas_price_high)
         /\ \A p \in 1..pass :
              /\ Len(PassOf(sign_log, p)) <= 1
              /\ Len(PassOf(bc_log, p)) <= 1
              /\ (p < pass \/ pc \in {"broadcast", "wait_inner", "wait_poll"})
                    => Len(PassOf(sign_log, p)) = 1

C18_Witness ==
    /\ gas_price_retry_attempts = 0
    /\ ~skip_code_check
    /\ Len(bc_log) = 2
    /\ bc_log[2].pass = 2
    /\ bc_log[2].tx.fee_amount = MulTrunc(gas_to_request, gas_price_high)
    /\ bc_log[2].reply.code = 13
    /\ pc = "done"

\* C19: the padded gas is the estimate times the multiplier, truncated
\* toward zero: 1234 with 1.3 gives 1604 and with 4.2 gives 5182.
C19_PaddedGasIsTruncated ==
    Ran("multiply_estimated_gas") =>
        LET m == fn_call.multiplier IN
        /\ fn_ret.status = "ok"
        /\ fn_ret.value * m.den <= fn_call.gas * m.num
        /\ fn_call.gas * m.num < (fn_ret.value + 1) * m.den
        /\ (fn_call.gas = 1234 /\ m = Fraction(13, 10)) => fn_ret.value = 1604
        /\ (fn_call.gas = 1234 /\ m = Fraction(42, 10)) => fn_ret.value = 5182

C19_Witness ==
    /\ Ran("multiply_estimated_gas")
    /\ fn_call.gas = 1234
    /\ fn_call.multiplier = Fraction(42, 10)
    /\ fn_ret.value = 5182

\* the source has only non-empty pages, a next-key on every page but the
\* last and an empty next-key on the last
ChainedSource(pages) ==
    \A i \in 1..Len(pages) :
        /\ pages[i].items # <<>>
        /\ pages[i].pagination.present
        /\ pages[i].pagination.next_key = (IF i < Len(pages) THEN i + 1 ELSE 0)

PagedCall == fn_call.fn \in {"all_balances", "query_granter_grants"}

\* C20 as stated: over a source of P chained non-empty pages a paginated
\* query issues exactly P requests and returns the items of all pages in
\* page order.
C20_OneRequestPerPage ==
    (PagedCall /\ ChainedSource(fn_call.pages) /\ fn_ret.status # "err") =>
        /\ Len(page_requests) <= Len(fn_call.pages)
        /\ Len(page_requests) = Len(fn_call.pages) =>
              fn_ret = ReturnedItems(AllItems(fn_call.pages))

\* the response to the i-th page request of the call
ResponseTo(i) == respond(fn_call.pages, page_requests[i])

\* request i was answered (only the last request of a call can fail)
Answered(i) == i < Len(page_requests) \/ fn_ret.status # "err"

HasNextKey(res) == res.pagination.present /\ res.pagination.next_key # 0

\* C21 as stated: a page without items ends the loop of a paginated query,
\* whatever next-key its response carries: no request follows it and the
\* query returns.
C21_EmptyPageEndsLoop ==
    PagedCall =>
        \A i \in 1..Len(page_requests) :
            (Answered(i) /\ ResponseTo(i).items = <<>>) =>
                /\ i = Len(page_requests)
                /\ fn_ret.status = "ok"

\* C22 as stated: a paginated query makes another request only after a
\* response with a non-empty next-key, and it never repeats a request.
C22_StopsWithoutNextKey ==
    PagedCall =>
        /\ \A i \in 1..Len(page_requests) :
              (Answered(i) /\ ~HasNextKey(ResponseTo(i))) =>
                  /\ i = Len(page_requests)
                  /\ fn_ret.status = "ok"
        /\ \A i, j \in 1..Len(page_requests) :
              i < j => page_requests[i] # page_requests[j]

\* the data of the first-registered endpoint that accessor `name` is to
\* return
FirstRegistered(name) ==
    LET b == LeaseBuilder(1) IN
    CASE name = "get_first_builder" -> b
      [] name = "get_config" ->
            [rpc_url |-> b.rpc_url, transaction_attempts |-> b.transaction_attempts,
             gas_estimate_multiplier |-> b.gas_estimate_multiplier]
      [] name = "get_gas_coin" -> b.gas_coin
      [] name = "get_gas_multiplier" -> b.gas_estimate_multiplier
      [] name = "get_address_type" -> b.address_type

\* C23: whatever the cursor and however many leases the pool has, each
\* primary-config accessor returns the data of the first-registered
\* endpoint, and its call leaves the cursor, the endpoints and the leases of
\* the pool as they were.
C23_PrimaryAccessors ==
    /\ []((fn_call.fn \in Accessors /\ fn_ret.status # "none") =>
             /\ fn_ret.status = "ok"
             /\ fn_ret.value = FirstRegistered(fn_call.fn))
    /\ [][fn_call.fn \in Accessors =>
             UNCHANGED <<pool_vars, creator_vars, lease_vars>>]_vars

C23_Witness ==
    /\ fn_call.fn = "get_gas_coin"
    /\ fn_ret.status = "ok"
    /\ fn_ret.value = <<"coin", 1>>
    /\ Len(builders) = MaxPoolEndpoints
    /\ next_index = Len(builders) - 1
    /\ Len(idle) = Len(builders) - 1
    /\ Len(idle) >= 2

\* the callers that have a lease checked out
Holders == {c \in CreatorIds : cpc[c] \in {"holding", "rpc"}}

\* the callers whose acquisition is dialing
Dialing == {c \in CreatorIds : cpc[c] = "dial"}

\* C24: every acquisition that goes to an endpoint dials once: the dials
\* made are as many as the endpoint selections whose dial has ended, a
\* failed or timed-out dial leaves its caller with the connectivity error
\* and without a lease, and the leases in the pool or checked out are
\* exactly the connections established.
C24_OneDialPerAcquisition ==
    /\ dial_attempts + Cardinality(Dialing) = Len(created)
    /\ Len(connections) <= dial_attempts
    /\ Len(idle) + Cardinality(Holders) = Len(connections)
    /\ \A c \in CreatorIds :
         lease_of[c] = ConnectFailed => (cpc[c] = "idle" /\ cres[c] = None)

C24_Witness ==
    /\ \E c \in CreatorIds : lease_of[c] = ConnectFailed
    /\ Dialing = {}
    /\ dial_attempts = Len(created)
    /\ dial_attempts >= 2
    /\ Len(connections) = dial_attempts - 1
    /\ Len(idle) = Len(connections)

\* the leases sitting idle in the pool
IdleLeases == {idle[i] : i \in 1..Len(idle)}

\* the leases checked out
HeldLeases == {lease_of[c] : c \in Holders}

\* caller c returns its lease in this step
Returns(c) == c \in Holders /\ cpc'[c] = "idle"

\* caller c starts an acquisition in this step
Acquires(c) == cpc[c] = "idle" /\ cpc'[c] # "idle"

\* C25: every connection established stays a lease of the pool, idle or
\* checked out; a returned lease is put back among the idle ones, also
\* when an RPC on it has failed; an acquisition that finds an idle lease
\* gets the oldest one, and only one that finds none dials.
C25_RecycleAlwaysAccepts ==
    /\ [](IdleLeases \cup HeldLeases = 1..Len(connections))
    /\ [][\A c \in CreatorIds :
            /\ Returns(c) => idle' = Append(idle, lease_of[c])
            /\ (Acquires(c) /\ idle # <<>>) =>
                  /\ cpc'[c] = "holding"
                  /\ lease_of'[c] = Head(idle)
                  /\ connections' = connections
                  /\ created' = created
            /\ (Acquires(c) /\ cpc'[c] = "dial") => idle = <<>>]_vars

C25_Witness ==
    /\ Len(connections) = 2
    /\ \E c \in CreatorIds :
         /\ cpc[c] = "holding"
         /\ lease_of[c] \in failed_leases
         /\ IdleLeases # {}
         /\ IdleLeases \subseteq failed_leases

\* C26: under every interleaving of the callers no lease is checked out by
\* two callers, none is both idle and checked out or idle twice, and no
\* lease has more than one call in flight on its stubs.
C26_LeaseExclusive ==
    /\ \A c1, c2 \in Holders : lease_of[c1] = lease_of[c2] => c1 = c2
    /\ HeldLeases \cap IdleLeases = {}
    /\ \A i, j \in 1..Len(idle) : idle[i] = idle[j] => i = j
    /\ \A c \in Holders : lease_of[c] \in 1..Len(connections)
    /\ \A k \in 1..Len(connections) : Cardinality(InFlight(k)) <= 1

C26_Witness ==
    /\ Len(builders) = 1
    /\ connections = <<0, 0>>
    /\ \E c1, c2 \in CreatorIds :
         /\ c1 # c2
         /\ cpc[c1] = "rpc"
         /\ cpc[c2] = "rpc"
         /\ lease_of[c1] = 2
         /\ lease_of[c2] = 1
    /\ dial_attempts >= 3

\* caller c is inside get_next_builder, between next_index.lock() and the
\* return
Selecting(c) == cpc[c] \in {"locked", "selected", "incremented", "wrapped"}

\* caller c is dialing an endpoint, or holds a lease and runs its RPCs
OnNetwork(c) == cpc[c] \in {"dial", "holding"}

\* C27: a caller holds the cursor lock exactly while it is inside
\* get_next_builder: when its dial begins, and for as long as it dials or
\* uses the lease, it does not hold the lock.
C27_CursorLockNotHeldOnNetwork ==
    \A c \in CreatorIds :
        /\ c \in lock_holders <=> Selecting(c)
        /\ OnNetwork(c) => c \notin lock_holders

C27_Witness ==
    /\ lock_holders # {}
    /\ \E c1, c2 \in CreatorIds :
         /\ cpc[c1] = "dial"
         /\ cpc[c2] = "wrapped"
         /\ lock_holders = {c2}
    /\ Len(lock_order) >= 3

\* the integer written at the start of s: an optional sign and the longest
\* run of digits after it
LeadingInteger(s) ==
    LET signed == s # <<>> /\ Head(s) \in {"+", "-"}
        body == IF signed THEN Tail(s) ELSE s
        run == CHOOSE n \in 0..Len(body) :
                  /\ \A i \in 1..n : IsDigit(body[i])
                  /\ n < Len(body) => ~IsDigit(body[n + 1])
        value == DigitsValue(SubSeq(body, 1, run), 0)
    IN  IF run = 0 THEN NoHeight
        ELSE SomeHeight(IF signed /\ Head(s) = "-" THEN 0 - value ELSE value)

\* the integer that follows the first occurrence of needle in the message
HintAfter(message, needle) ==
    LET at == FindTok(message, needle)
    IN  IF at = 0 THEN NoHeight
        ELSE LeadingInteger(TrimStart(SubSeq(message, at + 1, Len(message))))

\* the error of the first block request
FirstError ==
    IF fn_call.reply = "status" THEN StatusError(fn_call.message)
    ELSE OtherError(fn_call.message)

\* C28: get_earliest_block_info asks for height 1 first and for at most one
\* more block; it asks again only after a node status whose message has an
\* integer after "lowest height is" or "base height: ", and then for that
\* height; without a second request the first error is returned as it is.
C28_EarliestBlockRetriesOnce ==
    Ran("get_earliest_block_info") =>
        /\ block_requests # <<>>
        /\ block_requests[1] = 1
        /\ Len(block_requests) <= 2
        /\ Len(block_requests) = 2 =>
              /\ fn_call.reply = "status"
              /\ \E needle \in {NeedleLowest, NeedleBase} :
                    HintAfter(fn_call.message, needle)
                        = SomeHeight(block_requests[2])
              /\ fn_ret \in {Returned(block_requests[2]), FailedWith(SecondError)}
        /\ (Len(block_requests) = 1 /\ fn_call.reply # "ok") =>
              fn_ret = FailedWith(FirstError)
        /\ fn_call.reply = "ok" => fn_ret = Returned(1)

C28_Witness ==
    /\ Ran("get_earliest_block_info")
    /\ fn_call.reply = "status"
    /\ fn_call.message =
          <<"height 1 is not available, ", NeedleLowest, Blank, "1", "2", ")">>
    /\ block_requests = <<1, 12>>
    /\ fn_ret = Returned(12)

\* the first simulate request succeeded, the first broadcast was accepted
\* with code 0, and the one get_tx query made returned the transaction with
\* code 0
ScenarioA ==
    /\ entry = "sign_and_broadcast"
    /\ sim_log # <<>>
    /\ sim_log[1].reply.kind = "ok"
    /\ bc_log # <<>>
    /\ bc_log[1].reply.kind = "ok"
    /\ bc_log[1].reply.code = 0
    /\ polls = 1
    /\ last_poll.reply.kind = "ok"
    /\ last_poll.reply.code = 0

\* C29: when the simulation succeeds, the first broadcast is accepted with
\* code 0 and the first get_tx query returns the transaction with code 0,
\* sign_and_broadcast returns that response after exactly one simulate
\* request, one broadcast and one get_tx query.
C29_ScenarioA ==
    ScenarioA =>
        /\ pc = "done"
        /\ result = Ok(0, last_poll.reply.text)
        /\ Len(sim_log) = 1
        /\ Len(bc_log) = 1
        /\ last_poll.attempt = 1
        /\ last_poll.broadcasts = 1
        /\ slept = 0

C29_Witness ==
    /\ ScenarioA
    /\ pc = "done"
    /\ result = Ok(0, <<>>)
    /\ Len(sign_log) = 1

\* C30: for any two submissions from one wallet through one client handle,
\* concurrent ones included, the sequence numbers of their broadcast
\* transactions differ.
C30_SequencesDiffer ==
    \A i, j \in 1..Len(wlog) :
        wlog[i].submission # wlog[j].submission =>
            wlog[i].sequence # wlog[j].sequence

\* C31: sign_and_broadcast_with_gas issues no simulate request; it signs only
\* after the account was fetched, with the caller's gas limit as it is.
\* sign_and_broadcast broadcasts only after a simulation that succeeded.
C31_SimulationOnlyInSignAndBroadcast ==
    /\ entry = "sign_and_broadcast_with_gas" =>
          /\ sim_log = <<>>
          /\ sign_log # <<>> => base_account.kind = "ok"
          /\ \A i \in 1..Len(sign_log) : sign_log[i].doc.gas_limit \in GasRequests
          /\ \A i \in 1..Len(bc_log) : bc_log[i].tx.gas_limit \in GasRequests
    /\ (entry = "sign_and_broadcast" /\ bc_log # <<>>) =>
          /\ sim_log # <<>>
          /\ sim_log[Len(sim_log)].reply.kind = "ok"
          /\ \A i \in 1..Len(bc_log) :
                bc_log[i].tx.gas_limit
                    = MulTrunc(sim_log[Len(sim_log)].reply.gas_used,
                               gas_estimate_multiplier)

C31_Witness ==
    /\ entry = "sign_and_broadcast_with_gas"
    /\ pc = "done"
    /\ result.status = "ok"
    /\ Len(bc_log) = 1
    /\ bc_log[1].tx.gas_limit = 1000
    /\ polls >= 1

\* C32: every request of the submission made through a lease of an endpoint
\* configured with the alternate JSON transport goes over that transport.
C32_JsonEndpointUsesJsonTransport ==
    \A q \in rpc_log : q.json => q.transport = "json"

\* C33: every broadcast of a submission goes through one and the same lease,
\* and the submission holds at most one lease at any moment.
C33_OneLeasePerSubmission ==
    /\ \A i, j \in 1..Len(bc_log) : bc_log[i].lease = bc_log[j].lease
    /\ Len(held) <= 1

\* C34: a reply that lacks an expected field ends the operation with an
\* error: no account in the account reply, no gas_info in the simulate
\* reply, no tx_response in the broadcast reply, no tx in the get_tx reply.
\* Nothing is requested after it: no simulate retry, no further price tier,
\* no second pass, no further poll.
C34_MissingFieldIsFatal ==
    /\ result.kind = "no account found" =>
          /\ pc = "done"
          /\ result.status = "err"
          /\ sign_log = <<>> /\ bc_log = <<>> /\ polls = 0
          /\ sim_log # <<>> => sim_log[Len(sim_log)].reply.kind = "ok"
    /\ \A i \in 1..Len(sim_log) :
          sim_log[i].reply.kind = "missing" =>
              /\ i = Len(sim_log)
              /\ pc = "done"
              /\ result = Err("Missing gas_info in SimulateResponse", 0, <<>>)
              /\ sign_log = <<>> /\ bc_log = <<>> /\ polls = 0
    /\ \A i \in 1..Len(bc_log) :
          bc_log[i].reply.kind = "missing" =>
              /\ i = Len(bc_log)
              /\ Len(sign_log) = i
              /\ pc = "done"
              /\ result = Err("Missing inner tx_response", 0, <<>>)
              /\ polls = 0
    /\ last_poll.reply.kind = "missing" =>
          /\ pc = "done"
          /\ result = Err("Missing tx for transaction", 0, <<>>)
          /\ polls = last_poll.attempt
          /\ Len(bc_log) = last_poll.broadcasts
          /\ Len(sign_log) = Len(bc_log)

C34_Witness ==
    /\ pc = "done"
    /\ gas_price_retry_attempts > 0
    /\ Len(bc_log) = 2
    /\ bc_log[1].reply.code = 13
    /\ bc_log[2].reply.kind = "missing"
    /\ bc_log[2].attempt_number = 1
    /\ result.status = "err"

\* C35: one submission makes at most 2 * (gas_price_retry_attempts + 1)
\* broadcasts, in at most two passes, and the second pass begins at price
\* tier 0 whatever the tier at which the mismatch was reported.
C35_BroadcastBudget ==
    /\ Len(bc_log) <= 2 * (gas_price_retry_attempts + 1)
    /\ pass \in {1, 2}
    /\ \A i \in 1..Len(bc_log) :
          /\ bc_log[i].pass \in {1, 2}
          /\ bc_log[i].attempt_number \in 0..gas_price_retry_attempts
          /\ (i > 1 /\ bc_log[i].pass # bc_log[i - 1].pass) =>
                /\ bc_log[i - 1].pass = 1
                /\ bc_log[i].pass = 2
                /\ bc_log[i].attempt_number = 0
                /\ bc_log[i].tx.fee_amount = bc_log[1].tx.fee_amount
    /\ \A i, j \in 1..Len(bc_log) :
          (i < j /\ bc_log[i].pass = bc_log[j].pass) =>
              bc_log[i].attempt_number < bc_log[j].attempt_number

C35_Witness ==
    /\ pc = "done"
    /\ gas_price_retry_attempts = MaxAttempts
    /\ Len(bc_log) = 2 * (MaxAttempts + 1)
    /\ bc_log[MaxAttempts + 1].pass = 1
    /\ bc_log[MaxAttempts + 1].attempt_number = MaxAttempts
    /\ bc_log[MaxAttempts + 2].pass = 2
    /\ bc_log[MaxAttempts + 2].attempt_number = 0

\* the fields of a signed document other than the fee amount and the
\* sequence
FixedPart(doc) ==
    <<doc.body, doc.account_number, doc.gas_limit, doc.chain_id, doc.fee_denom>>

\* C36: across all broadcasts of a submission the body, the account number,
\* the gas limit, the chain id and the fee denomination stay the same;
\* within a pass the sequence stays the same, so between tiers only the fee
\* amount changes; between the passes only the sequence changes.
C36_OnlyFeeAndSequenceChange ==
    /\ Len(bc_log) <= Len(sign_log)
    /\ \A i, j \in 1..Len(sign_log) :
          /\ FixedPart(sign_log[i].doc) = FixedPart(sign_log[j].doc)
          /\ sign_log[i].pass = sign_log[j].pass =>
                sign_log[i].doc.sequence = sign_log[j].doc.sequence
          /\ sign_log[i].attempt_number = sign_log[j].attempt_number =>
                sign_log[i].doc.fee_amount = sign_log[j].doc.fee_amount
    /\ \A i \in 1..Len(bc_log) :
          /\ bc_log[i].tx.signature = <<sign_log[i].doc>>
          /\ bc_log[i].tx.body = sign_log[i].doc.body
          /\ bc_log[i].tx.gas_limit = sign_log[i].doc.gas_limit
          /\ bc_log[i].tx.fee_denom = sign_log[i].doc.fee_denom
          /\ bc_log[i].tx.fee_amount = sign_log[i].doc.fee_amount
          /\ bc_log[i].tx.sequence = sign_log[i].doc.sequence

C36_Witness ==
    /\ Len(bc_log) = 3
    /\ bc_log[1].pass = 1 /\ bc_log[2].pass = 1 /\ bc_log[3].pass = 2
    /\ bc_log[1].tx.fee_amount < bc_log[2].tx.fee_amount
    /\ bc_log[3].tx.fee_amount = bc_log[1].tx.fee_amount
    /\ bc_log[3].tx.sequence # bc_log[1].tx.sequence
    /\ bc_log[2].tx.sequence = bc_log[1].tx.sequence

\* the submission waits in Pool::get: no lease is idle and none may be made
Blocked(c) ==
    /\ spc[c] \in {"account", "broadcast", "wait"}
    /\ idle = <<>>
    /\ pool_size = MaxPoolSize

\* C37: no state is reachable in which every lease of the pool is owned by a
\* submission that is itself waiting to acquire another lease.
C37_NoLeaseDeadlock ==
    ~ /\ pool_size = MaxPoolSize
      /\ idle = <<>>
      /\ \A c \in CreatorIds : sheld[c] # <<>> => Blocked(c)

\* the errors that report a result code
CodeErrors == {"Initial transaction broadcast failed", "Transaction failed"}

\* C38: with skip_code_check set no result code causes an error or a retry:
\* whatever the code of an accepted broadcast, there is no further price
\* tier and no second pass, the submission makes that one broadcast and goes
\* on to wait for the transaction, and the transaction the poll returns is
\* handed to the caller as a success whatever its final code.
C38_SkipCodeCheckIgnoresCodes ==
    skip_code_check =>
        /\ Len(bc_log) <= 1
        /\ pass = 1
        /\ attempt_number = 0
        /\ result.status = "err" => result.kind \notin CodeErrors
        /\ \A i \in BcIdx :
             Accepted(bc_log[i]) => pc \in {"wait_inner", "wait_poll", "done"}
        /\ last_poll.reply.kind = "ok" =>
             /\ pc = "done"
             /\ result = Ok(last_poll.reply.code, last_poll.reply.text)

C38_Witness ==
    /\ skip_code_check
    /\ gas_price_retry_attempts > 0
    /\ Len(bc_log) = 1
    /\ bc_log[1].reply.kind = "ok"
    /\ bc_log[1].reply.code = 13
    /\ last_poll.reply.kind = "ok"
    /\ last_poll.reply.code # 0
    /\ get_expected_sequence(last_poll.reply.text) # None
    /\ pc = "done"
    /\ result.status = "ok"

\* the creations that are past their selection
Selected(ks) == \A k \in ks : created[k] # None

\* the endpoints that the creations ks dialed
Dialed(ks) == {created[k] : k \in ks}

\* the number of dials that failed: the finished creations whose lease
\* neither lies in the pool nor is held by a caller
FailedDials ==
    Len(created)
      - Cardinality({c \in CreatorIds :
            cpc[c] \in {"locked", "selected", "incremented", "wrapped", "dial"}})
      - Cardinality({c \in CreatorIds : cpc[c] = "holding"})
      - Len(idle)

\* the creations of caller c
CreationsOf(c) == {k \in 1..Len(lock_order) : lock_order[k] = c}

\* the first n creations of caller c from its creation k on
NextOf(c, k, n) ==
    {j \in CreationsOf(c) :
        j >= k /\ Cardinality({i \in CreationsOf(c) : k <= i /\ i <= j}) <= n}

\* C39 as stated: the cursor advances on every lease creation whether the
\* dial succeeds or fails, and with N >= 2 endpoints any N consecutive
\* creating acquisitions of one caller dial every endpoint, so that one of
\* them dials a reachable endpoint if there is one.
C39_CallerReachesEveryEndpoint ==
    Len(builders) >= 2 =>
        /\ \A k \in 1..(Len(created) - 1) :
             Selected({k, k + 1}) =>
                created[k + 1] = (created[k] + 1) % Len(builders)
        /\ \A c \in CreatorIds : \A k \in CreationsOf(c) :
             LET ks == NextOf(c, k, Len(builders)) IN
             (Cardinality(ks) = Len(builders) /\ Selected(ks)) =>
                Dialed(ks) = 0..(Len(builders) - 1)

\* C39 amended: the cursor advances on every lease creation whether the dial
\* succeeds or fails, so after a creation that dialed endpoint i the next
\* creation on the pool, by whichever caller, dials endpoint (i + 1) mod N,
\* and any N consecutive creations on the pool dial every endpoint: with at
\* least one endpoint reachable, at most N consecutive creations on the pool
\* are needed before one dials a reachable endpoint.
C39_CursorAdvancesOnEveryCreation ==
    Len(builders) >= 2 =>
        /\ \A k \in 1..(Len(created) - 1) :
             Selected({k, k + 1}) =>
                created[k + 1] = (created[k] + 1) % Len(builders)
        /\ \A k \in 1..Len(created) :
             LET ks == k..(k + Len(builders) - 1) IN
             (k + Len(builders) - 1 <= Len(created) /\ Selected(ks)) =>
                Dialed(ks) = 0..(Len(builders) - 1)

C39_Witness ==
    /\ Len(builders) = 2
    /\ Len(created) = 3
    /\ Selected(1..3)
    /\ FailedDials = 2
    /\ lock_order[1] = lock_order[3]
    /\ lock_order[2] # lock_order[1]
    /\ created[3] = created[1]

\* the first simulation was answered with an error that names an expected
\* account sequence, and simulate has dealt with the answer
FirstSimulationMismatch ==
    /\ Len(sim_log) >= 1
    /\ sim_log[1].reply.kind = "err"
    /\ get_expected_sequence(sim_log[1].reply.message) # None
    /\ pc # "simulate_inner" \/ Len(sim_log) >= 2

\* C40: an account-sequence-mismatch error with expected number N on the
\* first simulation leads to one more simulation with sequence N, whether the
\* lease that carried the first simulation uses the gRPC stub or the JSON
\* transport.
C40_SimulateSameUnderBothTransports ==
    FirstSimulationMismatch =>
        /\ Len(sim_log) = 2
        /\ sim_log[2].sequence = get_expected_sequence(sim_log[1].reply.message)

====
